---- MODULE Spec2Model ----
(***************************************************************************)
(* Unix-domain descriptor passing (shared/netutils/unixfd.c): one sender,  *)
(* one receiver, one socket.  The receiver's call                          *)
(* lxc_abstract_unix_recv_fds_iov is modelled as one atomic step over the  *)
(* outcome of recvmsg(2); the kernel's SCM_RIGHTS delivery is modelled     *)
(* from the control-buffer size the code allocates.                        *)
(***************************************************************************)
EXTENDS Integers, Sequences, FiniteSets, TLC

\* ------------------------------------------------------------------ bounds
MaxFds == 2        \* small values of fd_count_max tried: 0..MaxFds
MaxSend == 3       \* small numbers of descriptors the peer sends: 0..MaxSend
MaxLen == 2        \* longest payload and longest receive buffer, in bytes
MaxEintr == 1      \* interrupted recvmsg attempts before the real outcome
FirstFd == 4       \* lowest free descriptor number in the receiver

\* ------------------------------------------------------- program constants
KERNEL_SCM_MAX_FD == 253
EINTR == 4
EBADF == 9
EAGAIN == 11
ENOMEM == 12
EINVAL == 22
EFBIG == 27
EMSGSIZE == 90
SizeofInt == 4
SizeofCmsghdr == 16
SizeofUcred == 12
SizeofSizeT == 8

\* Flag words are sets of bit positions: (1 << n) is {n}.
UNIX_FDS_ACCEPT_EXACT == {0}
UNIX_FDS_ACCEPT_LESS == {1}
UNIX_FDS_ACCEPT_MORE == {2}
UNIX_FDS_ACCEPT_NONE == {3}
UNIX_FDS_ACCEPT_MASK ==
    UNIX_FDS_ACCEPT_EXACT \cup UNIX_FDS_ACCEPT_LESS \cup UNIX_FDS_ACCEPT_MORE
        \cup UNIX_FDS_ACCEPT_NONE
UNIX_FDS_RECEIVED_EXACT == {16}
UNIX_FDS_RECEIVED_LESS == {17}
UNIX_FDS_RECEIVED_MORE == {18}
UNIX_FDS_RECEIVED_NONE == {19}

\* a & b, a & ~b, a | b and the population count on flag words
BitAnd(a, b) == a \cap b
BitAndNot(a, b) == a \ b
BitOr(a, b) == a \cup b
hweight32(w) == Cardinality(w)

Min(a, b) == IF a < b THEN a ELSE b

\* ------------------------------------------------------ control-message sizes
CMSG_ALIGN(len) == ((len + SizeofSizeT - 1) \div SizeofSizeT) * SizeofSizeT
CMSG_SPACE(len) == CMSG_ALIGN(len) + CMSG_ALIGN(SizeofCmsghdr)
CMSG_LEN(len) == CMSG_ALIGN(SizeofCmsghdr) + len

\* The control buffer the receiver allocates for fd_count_max descriptors.
cmsgbufsize(fd_count_max) ==
    CMSG_SPACE(SizeofUcred) + CMSG_SPACE(fd_count_max * SizeofInt)

\* ------------------------------------------------------------- struct unix_fds
FdSlots == 0 .. (KERNEL_SCM_MAX_FD - 1)

\* The fd array is kept as the value the caller filled it with and the slots
\* written since: slot i holds w[i] when written, `fill` otherwise.
FdArray(fill) == [fill |-> fill, w |-> [i \in {} |-> 0]]
FdAt(fd, i) == IF i \in DOMAIN fd.w THEN fd.w[i] ELSE fd.fill

\* The two ways a caller hands in the array: zeroed, or filled with -EBADF.
FdArrayInits == {FdArray(0), FdArray(-EBADF)}

unix_fds(max, cnt, flags, fd) ==
    [fd_count_max |-> max, fd_count_ret |-> cnt, flags |-> flags, fd |-> fd]

\* Accept words a caller may pass: every combination of the four accept bits,
\* one bit outside the mask, and a stale result bit.
AcceptWords ==
    (SUBSET UNIX_FDS_ACCEPT_MASK)
        \cup {{4}, UNIX_FDS_RECEIVED_EXACT,
              BitOr(UNIX_FDS_ACCEPT_LESS, UNIX_FDS_RECEIVED_LESS)}

\* Values of fd_count_max tried: small ones and the ones around the ceiling.
MaxCounts == (0 .. MaxFds) \cup {KERNEL_SCM_MAX_FD - 1, KERNEL_SCM_MAX_FD}

\* Numbers of descriptors the peer tries to send.
SendCounts ==
    (0 .. MaxSend)
        \cup {KERNEL_SCM_MAX_FD - 1, KERNEL_SCM_MAX_FD, KERNEL_SCM_MAX_FD + 1}

\* ---------------------------------------------------------- descriptor closes
\* A close log maps a descriptor to the number of close() calls made on it.
NoClose == [f \in {} |-> 0]

CloseFds(cl, fds_raw, lo, hi) ==
    LET S == {fds_raw[idx] : idx \in lo .. (hi - 1)}
    IN  [f \in (DOMAIN cl) \cup S |->
            (IF f \in DOMAIN cl THEN cl[f] ELSE 0) + (IF f \in S THEN 1 ELSE 0)]

\* ------------------------------------------------------------ kernel, recvmsg
\* Room for descriptors left in a control buffer of the given length.
scm_max_fds(controllen) ==
    IF controllen <= SizeofCmsghdr THEN 0
    ELSE (controllen - SizeofCmsghdr) \div SizeofInt

\* Bytes of the control buffer the credentials block takes (SO_PASSCRED).
CredSpace(passcred) == IF passcred THEN CMSG_SPACE(SizeofUcred) ELSE 0

\* The most descriptors recvmsg can install for a message with nfds.
FdMax(nfds, controllen, passcred) ==
    Min(scm_max_fds(controllen - CredSpace(passcred)), nfds)

\* The control messages and flags recvmsg hands back when it installed
\* `inst` of the message's nfds descriptors, numbered from FirstFd.
KernelControl(nfds, inst, controllen, passcred) ==
    [cmsgs |->
        (IF passcred
         THEN <<[cmsg_level |-> "SOL_SOCKET", cmsg_type |-> "SCM_CREDENTIALS",
                 cmsg_len |-> CMSG_LEN(SizeofUcred),
                 data |-> [idx \in {} |-> 0]]>>
         ELSE <<>>)
        \o
        (IF inst > 0
         THEN <<[cmsg_level |-> "SOL_SOCKET", cmsg_type |-> "SCM_RIGHTS",
                 cmsg_len |-> CMSG_LEN(inst * SizeofInt),
                 data |-> [idx \in 0 .. (inst - 1) |-> FirstFd + idx]]>>
         ELSE <<>>),
     ctrunc |-> inst < nfds
                  \/ (nfds > 0 /\ FdMax(nfds, controllen, passcred) <= 0)]

\* What is left on the socket after a read of `buflen` bytes of the head
\* message: a stream keeps the unread bytes (without descriptors), a datagram
\* socket drops them.
AfterRead(q, buflen, stype) ==
    IF stype = "stream" /\ Head(q).len > buflen
    THEN <<[nfds |-> 0, len |-> Head(q).len - buflen,
            data |-> SubSeq(Head(q).data, buflen + 1, Head(q).len)]>> \o Tail(q)
    ELSE Tail(q)

\* --------------------------------------------- lxc_abstract_unix_recv_fds_iov
\* Precheck with the ceiling compared by > instead of >=.
PrecheckCeilingOffByOne(ret_fds) ==
    IF BitAndNot(ret_fds.flags, UNIX_FDS_ACCEPT_MASK) # {} THEN EINVAL
    ELSE IF hweight32(BitAndNot(ret_fds.flags, UNIX_FDS_ACCEPT_NONE)) > 1
    THEN EINVAL
    ELSE IF ret_fds.fd_count_max > KERNEL_SCM_MAX_FD THEN EINVAL
    ELSE IF ret_fds.fd_count_ret # 0 THEN EINVAL
    ELSE 0

\* Argument checks made before any system call: 0 or the errno.
Precheck(ret_fds) ==
    IF BitAndNot(ret_fds.flags, UNIX_FDS_ACCEPT_MASK) # {} THEN EINVAL
    ELSE IF hweight32(BitAndNot(ret_fds.flags, UNIX_FDS_ACCEPT_NONE)) > 1
    THEN EINVAL
    ELSE IF ret_fds.fd_count_max >= KERNEL_SCM_MAX_FD THEN EINVAL
    ELSE IF ret_fds.fd_count_ret # 0 THEN EINVAL
    ELSE 0

\* AcceptsLess testing the wrong accept bit.
AcceptsLessWrongBit(ret_fds) == BitAnd(ret_fds.flags, UNIX_FDS_ACCEPT_MORE) # {}

AcceptsLess(ret_fds) == BitAnd(ret_fds.flags, UNIX_FDS_ACCEPT_LESS) # {}

\* AcceptsMore satisfied by the ACCEPT_LESS bit as well.
AcceptsMoreOrLess(ret_fds) ==
    BitAnd(ret_fds.flags, UNIX_FDS_ACCEPT_MORE \cup UNIX_FDS_ACCEPT_LESS) # {}

AcceptsMore(ret_fds) == BitAnd(ret_fds.flags, UNIX_FDS_ACCEPT_MORE) # {}

\* The padding running to the end of the array.
PadIdxWholeArray(ret_fds, num_raw) == num_raw .. (KERNEL_SCM_MAX_FD - 1)

\* Slots set to -EBADF when fewer descriptors came than were asked for.
PadIdx(ret_fds, num_raw) == num_raw .. (ret_fds.fd_count_max - 1)

\* ExcessFrom starting the close loop at the first descriptor.
ExcessFromZero(ret_fds) == 0

\* First index of the excess descriptors closed when more came than asked for.
ExcessFrom(ret_fds) == ret_fds.fd_count_max

\* CopyFds storing the descriptors in reverse order.
CopyFdsReversed(fd, fds_raw, num_raw) ==
    [fd EXCEPT !.w = [i \in (DOMAIN @) \cup (0 .. (num_raw - 1)) |->
                        IF i < num_raw THEN fds_raw[num_raw - 1 - i] ELSE @[i]]]

\* memcpy(ret_fds->fd, CMSG_DATA(cmsg), num_raw * sizeof(int))
CopyFds(fd, fds_raw, num_raw) ==
    [fd EXCEPT !.w = [i \in (DOMAIN @) \cup (0 .. (num_raw - 1)) |->
                        IF i < num_raw THEN fds_raw[i] ELSE @[i]]]

\* ret_fds->fd[idx] = -EBADF for the slots idx in S
PadFds(fd, S) ==
    [fd EXCEPT !.w = [i \in (DOMAIN @) \cup S |->
                        IF i \in S THEN -EBADF ELSE @[i]]]

\* The consistency check on the result flags, then the copy into the batch.
StoreFds(ret_fds, fds_raw, num_raw, cl) ==
    IF hweight32(BitAndNot(ret_fds.flags, UNIX_FDS_ACCEPT_MASK)) > 1
    THEN [err |-> EINVAL, ret_fds |-> ret_fds,
          closed |-> CloseFds(cl, fds_raw, 0, num_raw)]
    ELSE [err |-> 0,
          ret_fds |-> [ret_fds EXCEPT !.fd = CopyFds(@, fds_raw, num_raw),
                                      !.fd_count_ret = num_raw],
          closed |-> cl]

\* The body of the loop for an SCM_RIGHTS block.
HandleRights(ret_fds, cmsg, ctrunc) ==
    LET fds_raw == cmsg.data
        num_raw == (cmsg.cmsg_len - CMSG_LEN(0)) \div SizeofInt
        CloseAll(e) == [err |-> e, ret_fds |-> ret_fds,
                        closed |-> CloseFds(NoClose, fds_raw, 0, num_raw)]
    IN  IF num_raw >= KERNEL_SCM_MAX_FD THEN CloseAll(EFBIG)
        ELSE IF ctrunc THEN CloseAll(EFBIG)
        ELSE IF ret_fds.fd_count_max > num_raw
        THEN IF ~AcceptsLess(ret_fds) THEN CloseAll(EINVAL)
             ELSE StoreFds(
                    [ret_fds EXCEPT
                        !.fd = PadFds(@, PadIdx(ret_fds, num_raw)),
                        !.flags = BitOr(@, UNIX_FDS_RECEIVED_LESS)],
                    fds_raw, num_raw, NoClose)
        ELSE IF ret_fds.fd_count_max < num_raw
        THEN IF ~AcceptsMore(ret_fds) THEN CloseAll(EINVAL)
             ELSE StoreFds(
                    [ret_fds EXCEPT !.flags = BitOr(@, UNIX_FDS_RECEIVED_MORE)],
                    fds_raw, ret_fds.fd_count_max,
                    CloseFds(NoClose, fds_raw, ExcessFrom(ret_fds), num_raw))
        ELSE StoreFds(
                [ret_fds EXCEPT !.flags = BitOr(@, UNIX_FDS_RECEIVED_EXACT)],
                fds_raw, num_raw, NoClose)

\* The loop over the control messages: the first SCM_RIGHTS block is handled,
\* every other block is skipped.
RECURSIVE ScanCmsgs(_, _, _, _)
ScanCmsgs(ret_fds, cmsgs, i, ctrunc) ==
    IF i > Len(cmsgs)
    THEN [err |-> 0, ret_fds |-> ret_fds, closed |-> NoClose]
    ELSE IF cmsgs[i].cmsg_level = "SOL_SOCKET" /\ cmsgs[i].cmsg_type = "SCM_RIGHTS"
    THEN HandleRights(ret_fds, cmsgs[i], ctrunc)
    ELSE ScanCmsgs(ret_fds, cmsgs, i + 1, ctrunc)

\* The code after the loop: no descriptor was stored.
NoneReceived(ret_fds, ret) ==
    IF ret_fds.fd_count_ret = 0
    THEN LET f == BitOr(ret_fds.flags, UNIX_FDS_RECEIVED_NONE)
         IN  [ret |-> IF BitAnd(f, UNIX_FDS_ACCEPT_MASK) # {}
                         /\ BitAnd(f, UNIX_FDS_ACCEPT_NONE) = {}
                      THEN -EINVAL ELSE ret,
              ret_fds |-> [ret_fds EXCEPT !.flags = f]]
    ELSE [ret |-> ret, ret_fds |-> ret_fds]

\* The whole call.  alloc_ok: zalloc succeeded.  rm: the outcome of the last
\* recvmsg, [ret, cmsgs, ctrunc], ret being -errno, 0 or the byte count.
\* Result: return value, batch, close log, whether recvmsg was reached.
lxc_abstract_unix_recv_fds_iov(ret_fds, alloc_ok, rm) ==
    LET fail(e) == [ret |-> -e, ret_fds |-> ret_fds, closed |-> NoClose,
                    syscall |-> FALSE]
    IN  IF Precheck(ret_fds) # 0 THEN fail(Precheck(ret_fds))
        ELSE IF ~alloc_ok THEN fail(ENOMEM)
        ELSE IF rm.ret <= 0
        THEN [ret |-> rm.ret, ret_fds |-> ret_fds, closed |-> NoClose,
              syscall |-> TRUE]
        ELSE LET s == ScanCmsgs(ret_fds, rm.cmsgs, 1, rm.ctrunc)
                 t == NoneReceived(s.ret_fds, rm.ret)
             IN  IF s.err # 0
                 THEN [ret |-> -s.err, ret_fds |-> s.ret_fds,
                       closed |-> s.closed, syscall |-> TRUE]
                 ELSE [ret |-> t.ret, ret_fds |-> t.ret_fds,
                       closed |-> s.closed, syscall |-> TRUE]

\* ----------------------------------------------------------------- the state
VARIABLES
    stype,      \* "stream" or "dgram": the type of the socket pair
    passcred,   \* SO_PASSCRED is set on the receiving socket
    peer,       \* "open" or "closed": the sending end
    chan,       \* the message in flight, if any: <<[nfds, len, data]>>
    sent,       \* return value of the last lxc_abstract_unix_send_fds
    pc,         \* "idle" or "returned": the receiver's position
    arg,        \* the batch as the caller handed it in
    ret_fds,    \* the batch after the call
    retval,     \* the return value of the call
    rmsg,       \* the outcome of recvmsg the call saw
    nfds_msg,   \* descriptors carried by the message recvmsg consumed
    data_msg,   \* payload of the message recvmsg consumed
    rbuf,       \* the bytes recvmsg stored in the caller's buffer
    nsyscall,   \* recvmsg calls made by the call
    open,       \* descriptors installed by the call that are still open
    nclose      \* close log of the call

\* State of the netlink caller (shared/network.c, netns_getifaddrs.c).
VARIABLES
    npc,                    \* position of the netlink caller
    netns_id,               \* namespace id handed to netns_getifaddrs
    nsid,                   \* result of netns_get_nsid
    socks,                  \* every socket opened so far: <<[by, nclose]>>
    nl_fd,                  \* place in socks of the socket in use, 0 if none
    reqs,                   \* dump requests sent, in order
    strict,                 \* NETLINK_GET_STRICT_CHK: "unset", "ok", "rejected"
    getlink_netnsid_aware,  \* local of __rtnl_enumerate
    getaddr_netnsid_aware,  \* local of __rtnl_enumerate
    netnsid_aware,          \* the caller's bool behind the out-pointer
    aware_written,          \* __rtnl_enumerate stored into *netnsid_aware
    heap,                   \* the records calloc returned, in allocation order
    nfree,                  \* free() calls per record
    ctx,                    \* struct ifaddrs_ctx: [list, hash]
    ifap,                   \* the caller's list pointer: [written, list]
    enum_ret,               \* return value of netns_getifaddrs
    link_end,               \* how the link dump ended: "none", "done", "failed"
    addr_end,               \* how the address dump ended
    seen_link,              \* a parsed link frame carried IFLA_TARGET_NETNSID
    seen_addr,              \* a parsed address frame carried IFA_TARGET_NETNSID
    nframes,                \* link and address frames delivered so far
    last_cb,                \* the last call of nl_msg_to_ifaddr: the frame, the
                            \* result, and ctx, heap, nfree, Len(heap) before it
    errno,                  \* errno of the calling thread
    failure                 \* the failure that ended the call: [kind, code]

\* The library functions applied on their own to drawn inputs.
VARIABLES
    fn,                     \* the function applied last, "none" before any
    fn_in,                  \* its arguments and what the kernel answered
    fn_out                  \* what it returned

nl_vars == <<npc, netns_id, nsid, socks, nl_fd, reqs, strict,
             getlink_netnsid_aware, getaddr_netnsid_aware, netnsid_aware,
             aware_written, heap, nfree, ctx, ifap, enum_ret, link_end,
             addr_end, seen_link, seen_addr, nframes, last_cb, errno, failure>>

fn_vars == <<fn, fn_in, fn_out>>

\* State of the credential handshake of test/scmtest.c: the parent is the
\* sender, the child it forks the receiver.
VARIABLES
    spc,        \* position of the sender, or how it exited
    rpc,        \* position of the receiver, or how it exited
    sv0,        \* datagrams queued for reading at sv[0] (the sender's end)
    sv1,        \* datagrams queued for reading at sv[1] (the receiver's end)
    ident,      \* pid, uid and gid of the parent process
    mcred,      \* main's mcred, filled before fork
    rcred,      \* the receiver's rcred
    loop_i,     \* the receiver's loop counter i
    nread,      \* one-byte messages the sender has read
    sends,      \* credentials messages sent: <<[cred, nread]>>
    rounds,     \* calls of get_scm_creds_sync that returned: <<[block, cred]>>
    fault       \* a system call failed or the sender's wait timed out

scm_vars == <<spc, rpc, sv0, sv1, ident, mcred, rcred, loop_i, nread, sends,
              rounds, fault>>

\* ------------------------------------------------- bounds of the netlink model
MaxFrames == 2     \* link and address frames the kernel delivers to one call
MaxIndex == 1      \* interface indexes 1..MaxIndex, and one that shares a bucket
MaxWords == 4      \* 4-byte words after the header of a netlink message
MaxAttrs == 3      \* address attributes in one address frame

SizeofNlmsghdr == 16
SizeofIn6Addr == 16
MaxPrefixLen == 255

\* errno of a system call that fails for a reason other than a signal.
SysErrnos == {EAGAIN, ENOMEM}
\* errno after close(): 0 stands for a close that leaves errno alone.
CloseErrnos == {0, EINTR}

IFADDRS_HASH_SIZE == 64
SizeofName == 17

Indexes == (1 .. MaxIndex) \cup {IFADDRS_HASH_SIZE + 1}
Buckets == {i % IFADDRS_HASH_SIZE : i \in Indexes}

\* memset(ctx, 0, sizeof *ctx)
EmptyCtx == [list |-> <<>>, hash |-> [b \in Buckets |-> <<>>]]

\* No frame: the callback has not run.
NoFrame ==
    [type |-> "none", index |-> 0, name_len |-> 0, label_len |-> 0,
     target_netnsid |-> FALSE, error |-> 0]
NoCallback ==
    [h |-> NoFrame, ret |-> 0, ctx |-> EmptyCtx, heap |-> <<>>,
     nfree |-> <<>>, nheap |-> 0]
NoFailure == [kind |-> "none", code |-> 0]

\* struct ucred with every field -1.
NoCred == [pid |-> -1, uid |-> -1, gid |-> -1]

\* scmtest before main runs, as the process with identity id.
ScmStart(id) ==
    /\ spc = "start"
    /\ rpc = "unborn"
    /\ sv0 = <<>>
    /\ sv1 = <<>>
    /\ ident = id
    /\ mcred = NoCred
    /\ rcred = NoCred
    /\ loop_i = 0
    /\ nread = 0
    /\ sends = <<>>
    /\ rounds = <<>>
    /\ fault = FALSE

\* scmtest is not run.
ScmIdle == ScmStart([pid |-> 1, uid |-> 0, gid |-> 0])

\* No library function applied yet; each run applies one function once.
FnIdle ==
    /\ fn = "none"
    /\ fn_in = <<>>
    /\ fn_out = <<>>

\* The netlink caller before any call; aware0 is what the caller's bool holds.
NlStart(aware0) ==
    /\ npc = "idle"
    /\ netns_id = -1
    /\ nsid = -1
    /\ socks = <<>>
    /\ nl_fd = 0
    /\ reqs = <<>>
    /\ strict = "unset"
    /\ getlink_netnsid_aware = FALSE
    /\ getaddr_netnsid_aware = FALSE
    /\ netnsid_aware = aware0
    /\ aware_written = FALSE
    /\ heap = <<>>
    /\ nfree = <<>>
    /\ ctx = EmptyCtx
    /\ ifap = [written |-> FALSE, list |-> <<>>]
    /\ enum_ret = 0
    /\ link_end = "none"
    /\ addr_end = "none"
    /\ seen_link = FALSE
    /\ seen_addr = FALSE
    /\ nframes = 0
    /\ last_cb = NoCallback
    /\ errno = 0
    /\ failure = NoFailure

unixfd_vars == <<stype, passcred, peer, chan, sent, pc, arg, ret_fds, retval,
                 rmsg, nfds_msg, data_msg, rbuf, nsyscall, open, nclose>>

vars == <<unixfd_vars, nl_vars, fn_vars, scm_vars>>

NoRecvmsg == [ret |-> 0, cmsgs |-> <<>>, ctrunc |-> FALSE]
FreshBatch == unix_fds(0, 0, {}, FdArray(-EBADF))

Init ==
    /\ stype \in {"stream", "dgram"}
    /\ passcred \in BOOLEAN
    /\ peer = "open"
    /\ chan = <<>>
    /\ sent = 0
    /\ pc = "idle"
    /\ arg = FreshBatch
    /\ ret_fds = FreshBatch
    /\ retval = 0
    /\ rmsg = NoRecvmsg
    /\ nfds_msg = 0
    /\ data_msg = <<>>
    /\ rbuf = <<>>
    /\ nsyscall = 0
    /\ open = {}
    /\ nclose = NoClose
    /\ NlStart(FALSE)
    /\ FnIdle
    /\ ScmIdle

recv_vars == <<pc, arg, ret_fds, retval, rmsg, nfds_msg, data_msg, rbuf,
               nsyscall, open, nclose>>

\* ------------------------------------------------- lxc_abstract_unix_send_fds
\* The bytes the sender's iovec points at: the caller's data, or buf[1] = {0}.
CallerData(size) == [i \in 1 .. size |-> i - 1]
PlaceholderByte == <<0>>

\* What sendmsg does with one rights block of num_sendfds descriptors and
\* the payload iov: [ret, q].
KernelSendmsg(q, num_sendfds, iov) ==
    IF peer = "closed" THEN [ret |-> -1, q |-> q]
    ELSE IF num_sendfds > KERNEL_SCM_MAX_FD THEN [ret |-> -1, q |-> q]
    ELSE IF stype = "stream" /\ Len(iov) = 0 THEN [ret |-> 0, q |-> q]
    ELSE [ret |-> Len(iov),
          q |-> Append(q, [nfds |-> num_sendfds, len |-> Len(iov),
                           data |-> iov])]

\* data_given: the caller passed a data pointer; size: its length.
lxc_abstract_unix_send_fds(q, num_sendfds, data_given, size, alloc_ok) ==
    IF ~alloc_ok THEN [ret |-> -1, q |-> q]
    ELSE KernelSendmsg(q, num_sendfds,
                       IF data_given THEN CallerData(size) ELSE PlaceholderByte)

Send ==
    /\ pc = "idle"
    /\ chan = <<>>
    /\ \E n \in SendCounts, data_given \in BOOLEAN, size \in 0 .. MaxLen,
          alloc_ok \in BOOLEAN :
          LET r == lxc_abstract_unix_send_fds(chan, n, data_given, size, alloc_ok)
          IN  /\ chan' = r.q
              /\ sent' = r.ret
    /\ UNCHANGED <<stype, passcred, peer>>
    /\ UNCHANGED recv_vars
    /\ UNCHANGED <<nl_vars, fn_vars, scm_vars>>

\* The peer closes its end once what it sent has been read.
PeerClose ==
    /\ pc = "idle"
    /\ peer = "open"
    /\ chan = <<>>
    /\ peer' = "closed"
    /\ UNCHANGED <<stype, passcred, chan, sent>>
    /\ UNCHANGED recv_vars
    /\ UNCHANGED <<nl_vars, fn_vars, scm_vars>>

\* ------------------------------------------------------------------- receive
\* The call returned `res` for the batch `a` after n recvmsg calls that ended
\* in outcome rm, having installed the descriptors in `inst`.
Return(a, res, rm, n, inst, carried) ==
    /\ pc' = "returned"
    /\ arg' = a
    /\ ret_fds' = res.ret_fds
    /\ retval' = res.ret
    /\ rmsg' = rm
    /\ nfds_msg' = carried
    /\ nsyscall' = IF res.syscall THEN n ELSE 0
    /\ open' = inst \ DOMAIN res.closed
    /\ nclose' = res.closed

\* lxc_abstract_unix_recv_fds: the iovec is the caller's buffer, or buf[1].
RecvIovLen(ret_data_given, size_ret_data) ==
    IF ret_data_given THEN size_ret_data ELSE 1

\* The call fails before recvmsg: bad arguments or no memory.
RecvRejected ==
    /\ pc = "idle"
    /\ \E max \in MaxCounts, cnt \in {0, 1}, flags \in AcceptWords,
          fd \in FdArrayInits, alloc_ok \in BOOLEAN :
          LET a == unix_fds(max, cnt, flags, fd)
              res == lxc_abstract_unix_recv_fds_iov(a, alloc_ok, NoRecvmsg)
          IN  /\ ~res.syscall
              /\ Return(a, res, NoRecvmsg, 0, {}, 0)
    /\ data_msg' = <<>>
    /\ rbuf' = <<>>
    /\ UNCHANGED <<stype, passcred, peer, chan, sent>>
    /\ UNCHANGED <<nl_vars, fn_vars, scm_vars>>

\* recvmsg fails (not EINTR) or reports the closed peer; nothing is consumed.
RecvNoMessage ==
    /\ pc = "idle"
    /\ \E max \in MaxCounts, flags \in AcceptWords, fd \in FdArrayInits,
          eintr \in 0 .. MaxEintr, ret \in {-EAGAIN, 0} :
          LET a == unix_fds(max, 0, flags, fd)
              rm == [ret |-> ret, cmsgs |-> <<>>, ctrunc |-> FALSE]
              res == lxc_abstract_unix_recv_fds_iov(a, TRUE, rm)
          IN  /\ res.syscall
              /\ ret = 0 => (chan = <<>> /\ peer = "closed")
              /\ ret < 0 => chan = <<>>
              /\ Return(a, res, rm, eintr + 1, {}, 0)
    /\ data_msg' = <<>>
    /\ rbuf' = <<>>
    /\ UNCHANGED <<stype, passcred, peer, chan, sent>>
    /\ UNCHANGED <<nl_vars, fn_vars, scm_vars>>

\* recvmsg consumes the head message: the kernel installs as many of its
\* descriptors as the control buffer holds (fewer when the descriptor table
\* is full), then the call runs to its end.
RecvMessage ==
    /\ pc = "idle"
    /\ chan # <<>>
    /\ \E max \in MaxCounts, flags \in AcceptWords, fd \in FdArrayInits,
          size_ret_data \in 0 .. MaxLen, eintr \in 0 .. MaxEintr :
          LET a == unix_fds(max, 0, flags, fd)
              \* a caller without a buffer passes NULL and size 0
              buflen == RecvIovLen(size_ret_data > 0, size_ret_data)
              m == Head(chan)
              clen == cmsgbufsize(max)
              fdmax == FdMax(m.nfds, clen, passcred)
          IN  \E inst \in {fdmax} \cup {k \in {0, 1} : k < fdmax} :
                LET kc == KernelControl(m.nfds, inst, clen, passcred)
                    rm == [ret |-> Min(m.len, buflen), cmsgs |-> kc.cmsgs,
                           ctrunc |-> kc.ctrunc]
                    res == lxc_abstract_unix_recv_fds_iov(a, TRUE, rm)
                IN  /\ res.syscall
                    /\ chan' = AfterRead(chan, buflen, stype)
                    /\ data_msg' = m.data
                    /\ rbuf' = SubSeq(m.data, 1, rm.ret)
                    /\ Return(a, res, rm, eintr + 1,
                              {FirstFd + idx : idx \in 0 .. (inst - 1)}, m.nfds)
    /\ UNCHANGED <<stype, passcred, peer, sent>>
    /\ UNCHANGED <<nl_vars, fn_vars, scm_vars>>

\* The caller closes what it was given and starts over.
Reset ==
    /\ pc = "returned"
    /\ pc' = "idle"
    /\ arg' = FreshBatch
    /\ ret_fds' = FreshBatch
    /\ retval' = 0
    /\ rmsg' = NoRecvmsg
    /\ nfds_msg' = 0
    /\ data_msg' = <<>>
    /\ rbuf' = <<>>
    /\ nsyscall' = 0
    /\ open' = {}
    /\ nclose' = NoClose
    /\ UNCHANGED <<stype, passcred, peer, chan, sent>>
    /\ UNCHANGED <<nl_vars, fn_vars, scm_vars>>

Next == Send \/ PeerClose \/ RecvRejected \/ RecvNoMessage \/ RecvMessage \/ Reset

Spec == Init /\ [][Next]_vars

\* ------------------------------------------------------------------ the claims
Returned == pc = "returned"

\* recvmsg was reached and read a message with payload.
MessageRead == Returned /\ nsyscall > 0 /\ rmsg.ret > 0

\* The descriptors recvmsg installed, in the order of the rights block.
Delivered ==
    LET R == {i \in 1 .. Len(rmsg.cmsgs) : rmsg.cmsgs[i].cmsg_type = "SCM_RIGHTS"}
    IN  IF R = {} THEN [idx \in {} |-> 0] ELSE rmsg.cmsgs[CHOOSE i \in R : TRUE].data

NumReceived == Cardinality(DOMAIN Delivered)
DeliveredFds == LET d == Delivered IN {d[idx] : idx \in DOMAIN d}

\* The descriptors the batch reports to the caller.
Reported == {FdAt(ret_fds.fd, i) : i \in 0 .. (ret_fds.fd_count_ret - 1)}

ClosedFds == {f \in DOMAIN nclose : nclose[f] >= 1}
AllClosed == DeliveredFds \subseteq ClosedFds

ResultFlags == BitAndNot(ret_fds.flags, UNIX_FDS_ACCEPT_MASK)
HasFlag(w) == ret_fds.flags \cap w # {}

\* The accept word the caller passed holds the policy bit w.
PolicyHas(w) == arg.flags \cap w # {}

\* The batch holds the first n delivered descriptors, in order.
FirstInOrder(n) ==
    /\ ret_fds.fd_count_ret = n
    /\ \A i \in 0 .. (n - 1) : FdAt(ret_fds.fd, i) = Delivered[i]

\* C1: on every return path each descriptor the kernel delivered is either
\* reported in fd[0 .. fd_count_ret) and still open, or was closed by the call.
C1_NoDescriptorLeft ==
    Returned =>
        \A f \in DeliveredFds : (f \in Reported /\ f \in open) \/ f \in ClosedFds

\* C1 restricted to the returns that read at least one payload byte or read
\* nothing at all; kept to show where the leak is.
C1_LeakOnlyOnEmptyPayload ==
    (Returned /\ rmsg.ret # 0) =>
        \A f \in DeliveredFds : (f \in Reported /\ f \in open) \/ f \in ClosedFds

\* C2: no descriptor is closed more than once by one call, and no descriptor
\* reported by a call that did not fail was closed by it.
C2_NoDoubleClose ==
    Returned =>
        /\ \A f \in DOMAIN nclose : nclose[f] = 1
        /\ DOMAIN nclose \subseteq DeliveredFds
        /\ retval >= 0 => Reported \cap DOMAIN nclose = {}

\* A call that accepted more descriptors than asked for: some reported, some closed.
C2_Witness ==
    /\ Returned /\ retval > 0
    /\ ret_fds.fd_count_ret > 0
    /\ DOMAIN nclose # {}
    /\ Reported \subseteq open

\* C3: after every return that is not an error exactly one of the four
\* result flags is set.
C3_ExactlyOneResultFlag ==
    (Returned /\ retval > 0) =>
        Cardinality(BitAnd(ResultFlags,
                           UNIX_FDS_RECEIVED_EXACT \cup UNIX_FDS_RECEIVED_LESS
                             \cup UNIX_FDS_RECEIVED_MORE \cup UNIX_FDS_RECEIVED_NONE)) = 1

\* C4: when as many descriptors arrive as were asked for (0..252, no
\* truncation) the call succeeds, reports them all in order, flags EXACT.
C4_ExactCount ==
    (MessageRead /\ ~rmsg.ctrunc /\ NumReceived = arg.fd_count_max) =>
        /\ retval = rmsg.ret
        /\ FirstInOrder(NumReceived)
        /\ HasFlag(UNIX_FDS_RECEIVED_EXACT)

\* C5 as stated, its first half: when fewer descriptors arrive than asked
\* for and ACCEPT_LESS is not in the policy, the call closes them all and
\* fails with EINVAL.  Checked for the calls that name a policy (the empty
\* flag word is C7's case).
C5_LessAsStated ==
    (MessageRead /\ arg.flags # {} /\ NumReceived < arg.fd_count_max
        /\ ~PolicyHas(UNIX_FDS_ACCEPT_LESS)) =>
        (retval = -EINVAL /\ AllClosed)

\* C5 amended: the same, for a message with payload that was not truncated
\* and carried at least one descriptor (1 <= r < m).
C5_Less ==
    (MessageRead /\ ~rmsg.ctrunc
        /\ 1 <= NumReceived /\ NumReceived < arg.fd_count_max) =>
        /\ ~PolicyHas(UNIX_FDS_ACCEPT_LESS) =>
              (retval = -EINVAL /\ AllClosed /\ open = {}
                 /\ ret_fds.fd_count_ret = 0)
        /\ PolicyHas(UNIX_FDS_ACCEPT_LESS) =>
              /\ retval = rmsg.ret
              /\ FirstInOrder(NumReceived)
              /\ HasFlag(UNIX_FDS_RECEIVED_LESS)
              /\ nclose = NoClose
              /\ open = DeliveredFds

\* Fewer descriptors than asked for, accepted.
C5_Witness ==
    /\ MessageRead /\ ~rmsg.ctrunc
    /\ 1 <= NumReceived /\ NumReceived < arg.fd_count_max
    /\ PolicyHas(UNIX_FDS_ACCEPT_LESS)
    /\ retval > 0 /\ HasFlag(UNIX_FDS_RECEIVED_LESS)

\* Fewer descriptors than asked for, refused.
C5_WitnessRefused ==
    /\ MessageRead /\ ~rmsg.ctrunc
    /\ 1 <= NumReceived /\ NumReceived < arg.fd_count_max
    /\ ~PolicyHas(UNIX_FDS_ACCEPT_LESS)
    /\ retval = -EINVAL /\ AllClosed

\* C6: when more descriptors arrive than asked for (m < r < 253, no
\* truncation) the call fails with EINVAL and closes them all unless
\* ACCEPT_MORE is given; with ACCEPT_MORE it closes exactly those at index
\* >= m, reports the first m in order, flags MORE and succeeds.
C6_More ==
    (MessageRead /\ ~rmsg.ctrunc
        /\ arg.fd_count_max < NumReceived /\ NumReceived < KERNEL_SCM_MAX_FD) =>
        /\ ~PolicyHas(UNIX_FDS_ACCEPT_MORE) => (retval = -EINVAL /\ AllClosed)
        /\ PolicyHas(UNIX_FDS_ACCEPT_MORE) =>
              /\ retval = rmsg.ret
              /\ FirstInOrder(arg.fd_count_max)
              /\ ClosedFds = {Delivered[idx] : idx \in arg.fd_count_max .. (NumReceived - 1)}
              /\ HasFlag(UNIX_FDS_RECEIVED_MORE)

\* C7: a message with payload and no descriptor, m > 0: the call succeeds
\* only under a policy that includes ACCEPT_NONE and fails with EINVAL under
\* every other policy, the empty flag word included.
C7_NoneNeedsPolicy ==
    (MessageRead /\ nfds_msg = 0 /\ arg.fd_count_max > 0) =>
        IF PolicyHas(UNIX_FDS_ACCEPT_NONE)
        THEN retval = rmsg.ret /\ HasFlag(UNIX_FDS_RECEIVED_NONE)
        ELSE retval = -EINVAL

\* C8: after a successful receive that reported fewer descriptors than asked
\* for, every slot from fd_count_ret up to fd_count_max holds -EBADF.
C8_UnusedSlotsPadded ==
    (Returned /\ retval > 0 /\ ret_fds.fd_count_ret < ret_fds.fd_count_max) =>
        \A i \in ret_fds.fd_count_ret .. (ret_fds.fd_count_max - 1) :
            FdAt(ret_fds.fd, i) = -EBADF

\* The single policies C9 names: empty (default), EXACT, LESS, MORE, NONE.
SinglePolicies ==
    {{}, UNIX_FDS_ACCEPT_EXACT, UNIX_FDS_ACCEPT_LESS, UNIX_FDS_ACCEPT_MORE,
     UNIX_FDS_ACCEPT_NONE}

BatchUntouched ==
    /\ retval = -EINVAL
    /\ nsyscall = 0
    /\ nclose = NoClose
    /\ ret_fds = arg

\* C9 as stated: the call fails with EINVAL before recvmsg, leaving the batch
\* unchanged, exactly when the flags do not name one single policy or
\* fd_count_max >= 253; for every other input recvmsg is called.  Checked
\* for the calls whose control buffer could be allocated.
C9_PreconditionsAsStated ==
    (Returned /\ retval # -ENOMEM) =>
        IF arg.flags \notin SinglePolicies \/ arg.fd_count_max >= KERNEL_SCM_MAX_FD
        THEN BatchUntouched
        ELSE nsyscall > 0

\* C9 amended: the call fails with EINVAL before recvmsg, leaving the batch
\* unchanged, exactly when the flags hold a bit outside the accept mask or
\* more than one of EXACT, LESS, MORE (NONE may accompany one of them), or
\* fd_count_max >= 253, or fd_count_ret is not 0; for every other input
\* recvmsg is called unless the control buffer cannot be allocated (ENOMEM,
\* batch unchanged).
C9_Preconditions ==
    Returned =>
        IF \/ \E b \in arg.flags : b \notin {0, 1, 2, 3}
           \/ Cardinality(arg.flags \cap {0, 1, 2}) > 1
           \/ arg.fd_count_max >= KERNEL_SCM_MAX_FD
           \/ arg.fd_count_ret # 0
        THEN BatchUntouched
        ELSE \/ nsyscall > 0
             \/ retval = -ENOMEM /\ nsyscall = 0 /\ nclose = NoClose /\ ret_fds = arg

\* A call refused for asking for the ceiling itself.
C9_Witness ==
    /\ Returned /\ BatchUntouched
    /\ arg.fd_count_max = KERNEL_SCM_MAX_FD
    /\ arg.flags \in SinglePolicies /\ arg.fd_count_ret = 0
    /\ chan # <<>>

\* C10: whenever the received message has the control-truncation flag set,
\* the call closes every descriptor of the partial rights block, fails with
\* EFBIG and reports no descriptor.
C10_TruncationFails ==
    (MessageRead /\ rmsg.ctrunc) =>
        /\ retval = -EFBIG
        /\ AllClosed
        /\ ret_fds.fd_count_ret = 0

\* C10 restricted to the messages whose rights block is present.
C10_TruncatedRightsBlock ==
    (MessageRead /\ rmsg.ctrunc /\ NumReceived > 0) =>
        /\ retval = -EFBIG
        /\ AllClosed /\ open = {}
        /\ ret_fds.fd_count_ret = 0

\* The call consumed a message and the kernel installed every descriptor the
\* message carried.
AllInstalled ==
    /\ Returned /\ nsyscall > 0
    /\ nfds_msg >= 1
    /\ NumReceived = nfds_msg
    /\ ~rmsg.ctrunc

\* C11: a message carrying 253 or more descriptors makes the receive fail
\* with EFBIG under every accept policy, and every delivered descriptor is
\* closed, so that no descriptor of the message stays open.
C11_OverLimit ==
    (Returned /\ nsyscall > 0 /\ nfds_msg >= KERNEL_SCM_MAX_FD) =>
        /\ retval = -EFBIG
        /\ AllClosed /\ open = {}

\* C11 restricted to the calls that read payload and found a rights block.
C11_OverLimitRightsBlock ==
    (MessageRead /\ nfds_msg >= KERNEL_SCM_MAX_FD /\ NumReceived > 0) =>
        /\ retval = -EFBIG
        /\ AllClosed /\ open = {}

\* C12: round trip.  A message of N descriptors (1 <= N <= 252) and a
\* non-empty payload P that fits the receive buffer, received with
\* fd_count_max = N and policy ACCEPT_EXACT while the receiver's descriptor
\* table has room, gives fd_count_ret = N, the N files in the order sent,
\* RECEIVED_EXACT, the buffer equal to P and the return value Len(P).
C12_RoundTrip ==
    (/\ AllInstalled
     /\ nfds_msg < KERNEL_SCM_MAX_FD
     /\ arg.fd_count_max = nfds_msg
     /\ PolicyHas(UNIX_FDS_ACCEPT_EXACT)
     /\ Len(data_msg) >= 1 /\ rmsg.ret = Len(data_msg))
    =>
        /\ retval = Len(data_msg)
        /\ rbuf = data_msg
        /\ FirstInOrder(nfds_msg)
        /\ \A i \in 0 .. (nfds_msg - 1) : FdAt(ret_fds.fd, i) = FirstFd + i
        /\ Reported \subseteq open /\ nclose = NoClose
        /\ ResultFlags = UNIX_FDS_RECEIVED_EXACT

\* A round trip of two descriptors and two payload bytes.
C12_Witness ==
    /\ AllInstalled
    /\ nfds_msg = 2 /\ arg.fd_count_max = 2
    /\ arg.flags = UNIX_FDS_ACCEPT_EXACT
    /\ data_msg = CallerData(2) /\ rbuf = data_msg
    /\ retval = 2

\* The sender's N descriptors (N below the kernel's limit) all arrived with
\* payload at a receiver that asked for N - 1.
OneMoreThanAsked ==
    /\ AllInstalled /\ rmsg.ret > 0
    /\ nfds_msg < KERNEL_SCM_MAX_FD
    /\ arg.fd_count_max = nfds_msg - 1

\* C13 as stated: N descriptors sent and delivered, fd_count_max = N - 1 and policy
\* ACCEPT_LESS: the call succeeds, returns N - 1 descriptors and sets
\* RECEIVED_LESS.
C13_LessAsStated ==
    (OneMoreThanAsked /\ PolicyHas(UNIX_FDS_ACCEPT_LESS)) =>
        /\ retval > 0
        /\ ret_fds.fd_count_ret = nfds_msg - 1
        /\ HasFlag(UNIX_FDS_RECEIVED_LESS)

\* C13 amended: N descriptors sent with payload and all delivered,
\* fd_count_max = N - 1 and policy ACCEPT_LESS: the call fails with EINVAL,
\* reports no descriptor and closes all N.
C13_LessRefusesMore ==
    (OneMoreThanAsked /\ PolicyHas(UNIX_FDS_ACCEPT_LESS)) =>
        /\ retval = -EINVAL
        /\ ret_fds.fd_count_ret = 0
        /\ AllClosed /\ open = {}
        /\ ResultFlags = {}

\* Two descriptors arrive at a receiver that asked for one under ACCEPT_LESS.
C13_Witness ==
    /\ OneMoreThanAsked
    /\ arg.flags = UNIX_FDS_ACCEPT_LESS
    /\ nfds_msg = 2
    /\ Cardinality(ClosedFds) = 2

\* C14: N descriptors sent (N below the kernel's limit) and all delivered,
\* fd_count_max = N - 1 and the default exact policy: the call fails with
\* EINVAL, fd_count_ret stays 0 and all N delivered descriptors are closed.
C14_ExactRefusesMore ==
    (/\ AllInstalled
     /\ nfds_msg < KERNEL_SCM_MAX_FD
     /\ arg.fd_count_max = nfds_msg - 1
     /\ arg.flags \in {{}, UNIX_FDS_ACCEPT_EXACT})
    =>
        /\ retval = -EINVAL
        /\ ret_fds.fd_count_ret = 0
        /\ AllClosed /\ open = {}

\* C14 restricted to the calls that read at least one payload byte.
C14_ExactRefusesMoreWithPayload ==
    (OneMoreThanAsked /\ arg.flags \in {{}, UNIX_FDS_ACCEPT_EXACT}) =>
        /\ retval = -EINVAL
        /\ ret_fds.fd_count_ret = 0
        /\ AllClosed /\ open = {}

\* C15: every message lxc_abstract_unix_send_fds puts on the socket carries
\* a non-empty payload (the caller's bytes, or the placeholder byte).
C15_PayloadNonEmpty ==
    \A i \in 1 .. Len(chan) : chan[i].len >= 1 /\ chan[i].data # <<>>

\* =========================================================================
\* Netlink interface enumeration (shared/netutils/netns_getifaddrs.c) and the
\* namespace-id lookup (shared/network.c).  One caller: it may look up the id
\* of a namespace with netns_get_nsid, then calls netns_getifaddrs once.
\* =========================================================================
\* socket(): a new entry of the socket log; its place is the descriptor.
OpenSock(ss, by) == Append(ss, [by |-> by, nclose |-> 0])

\* close(fd)
CloseSock(ss, k) == [ss EXCEPT ![k].nclose = @ + 1]

\* The steps of netlink_open that can fail; "none": all succeed.
NetlinkOpenFails ==
    {"socket", "SO_SNDBUF", "SO_RCVBUF", "bind", "getsockname", "socklen",
     "nl_family", "none"}

\* netlink_open returning on a failed bind without the close at out:.
netlink_open_bind_leak(ss, fail) ==
    IF fail = "socket" THEN [ret |-> -1, socks |-> ss]
    ELSE LET opened == OpenSock(ss, "netlink_open")
         IN  IF fail = "bind" THEN [ret |-> -1, socks |-> opened]
             ELSE IF fail # "none"
             THEN [ret |-> -1, socks |-> CloseSock(opened, Len(opened))]
             ELSE [ret |-> Len(opened), socks |-> opened]

\* netlink_open when step `fail` fails: [ret, socks], ret the descriptor or -1.
netlink_open(ss, fail) ==
    IF fail = "socket" THEN [ret |-> -1, socks |-> ss]
    ELSE LET opened == OpenSock(ss, "netlink_open")
         IN  IF fail # "none"
             THEN [ret |-> -1, socks |-> CloseSock(opened, Len(opened))]
             ELSE [ret |-> Len(opened), socks |-> opened]

\* The replies netns_get_nsid may read: an error frame with its code, or an
\* RTM_NEWNSID frame with or without the NSID attribute; len_ok: the frame
\* length covers the rtgenmsg header.
NsidAnswers ==
    [type : {"NLMSG_ERROR"}, error : {-EINVAL, 0}, len_ok : BOOLEAN,
     has_nsid : {FALSE}, nsid : {-1}]
    \cup [type : {"RTM_NEWNSID"}, error : {0}, len_ok : BOOLEAN,
          has_nsid : BOOLEAN, nsid : {-1, 0}]

\* errno after netlink_open when step `fail` fails, e the errno of a failed
\* system call: errno = -EINVAL is stored before the two checks at the end.
netlink_open_errno(fail, e) ==
    IF fail \in {"socklen", "nl_family", "none"} THEN -EINVAL ELSE e

\* Lengths of netlink messages: the header and up to MaxWords 4-byte words.
NlLens == {SizeofNlmsghdr + 4 * k : k \in 0 .. MaxWords}

\* What the kernel answers to one sendmsg of len bytes: [ret, errno].
SendmsgOutcomes(len) ==
    [ret : {-1}, errno : SysErrnos \cup {EINTR}] \cup [ret : {len}, errno : {0}]

\* __netlink_send when errno is e0 and successive sendmsg calls would be
\* answered by outs: sendmsg is called once.
__netlink_send(e0, outs) ==
    LET o == outs[1]
    IN  IF o.ret < 0 THEN [ret |-> -1, errno |-> o.errno, calls |-> 1]
        ELSE [ret |-> o.ret, errno |-> e0, calls |-> 1]

\* What the kernel answers to one recvmsg into a buffer of len bytes:
\* [ret, errno, trunc, nlmsg_len], nlmsg_len the length field at the start of
\* the buffer after the call.  A datagram of x[1] bytes whose first frame is x[2]
\* bytes long fills the buffer up to len bytes and sets MSG_TRUNC if it is
\* longer.
RecvmsgOutcomes(len) ==
    [ret : {-1}, errno : SysErrnos \cup {EINTR}, trunc : {FALSE},
     nlmsg_len : {len}]
    \cup [ret : {0}, errno : {0}, trunc : {FALSE}, nlmsg_len : {len}]
    \cup {[ret |-> Min(x[1], len), errno |-> 0, trunc |-> x[1] > len,
           nlmsg_len |-> x[2]] :
           x \in {y \in NlLens \X NlLens : y[2] <= y[1]}}

\* if (msg.msg_flags & MSG_TRUNC) alone.
TruncatedAnyLength(o) == o.trunc

\* if (msg.msg_flags & MSG_TRUNC && ((__u32)ret == nlmsghdr->nlmsg_len))
Truncated(o) == o.trunc /\ o.ret = o.nlmsg_len

\* netlink_recv when errno is e0 and successive recvmsg calls are answered by
\* outs: [ret, errno, calls].
RECURSIVE netlink_recv_from(_, _, _)
netlink_recv_from(e0, outs, calls) ==
    LET o == outs[1]
    IN  IF o.ret < 0
        THEN IF o.errno = EINTR /\ Len(outs) > 1
             THEN netlink_recv_from(o.errno, Tail(outs), calls + 1)
             ELSE [ret |-> -1, errno |-> o.errno, calls |-> calls]
        ELSE IF o.ret = 0 THEN [ret |-> 0, errno |-> e0, calls |-> calls]
        ELSE IF Truncated(o)
        THEN [ret |-> -1, errno |-> EMSGSIZE, calls |-> calls]
        ELSE [ret |-> o.ret, errno |-> e0, calls |-> calls]

netlink_recv(e0, outs) == netlink_recv_from(e0, outs, 1)

\* The kernel's answers to the calls of one retry loop: the call is
\* interrupted up to MaxEintr times, then is not.
Runs(outcomes) ==
    UNION {{pre \o <<o>> :
              pre \in [1 .. n -> {x \in outcomes : x.ret < 0 /\ x.errno = EINTR}],
              o \in {x \in outcomes : ~(x.ret < 0 /\ x.errno = EINTR)}} :
           n \in 0 .. MaxEintr}

\* if (err->error < 0) read as if (err->error <= 0).
ErrorFails0(error) == error <= 0

\* if (err->error < 0) ret = -1;
ErrorFails(error) == error < 0

\* The request of netns_get_nsid: header, rtgenmsg, the descriptor attribute.
NsidRequestLen == (SizeofNlmsghdr + 4) + (4 + 4)
NsidRequest ==
    [type |-> "RTM_GETNSID", error |-> 0, len_ok |-> TRUE, has_nsid |-> FALSE,
     nsid |-> -1]

\* netlink_transaction when errno is e0, from what __netlink_send and
\* netlink_recv returned and the answer buffer after them: [ret, errno].
netlink_transaction(snd, rcv, answer) ==
    IF snd.ret < 0 THEN [ret |-> -1, errno |-> snd.errno]
    ELSE IF rcv.ret < 0 THEN [ret |-> -1, errno |-> rcv.errno]
    ELSE IF answer.type = "NLMSG_ERROR"
    THEN [ret |-> IF ErrorFails(answer.error) THEN -1 ELSE 0,
          errno |-> -answer.error]
    ELSE [ret |-> 0, errno |-> rcv.errno]

\* netns_get_nsid after netlink_open returned descriptor k:
\* [ret, socks, errno].
netns_get_nsid(ss, k, snd, rcv, answer) ==
    LET t == netlink_transaction(snd, rcv, answer)
        closed == CloseSock(ss, k)
        ret == IF t.ret < 0 THEN -1
               ELSE IF ~answer.len_ok THEN -1
               ELSE IF answer.has_nsid THEN answer.nsid
               ELSE -1
    IN  [ret |-> ret, socks |-> closed, errno |-> t.errno]

\* ------------------------------------------------------------ the frames
\* Lengths of the IFLA_IFNAME attribute: absent, fitting, one byte too long.
NameLens == {0, SizeofName - 1, SizeofName}

\* Lengths of the IFA_LABEL attribute: absent, fitting, one byte too long.
LabelLens == {0, SizeofName - 1, SizeofName}

\* ifi_flags and the IFLA_MTU value of the link frames of an interface.
LinkFlags(index) == index % 2
LinkMtu(index) == 1000 + index

LinkFrames ==
    [type : {"RTM_NEWLINK"}, index : Indexes, name_len : NameLens,
     label_len : {0}, target_netnsid : BOOLEAN, error : {0}]
AddrFrames ==
    [type : {"RTM_NEWADDR"}, index : Indexes, name_len : {0},
     label_len : LabelLens, target_netnsid : BOOLEAN, error : {0}]
\* The codes an NLMSG_ERROR frame of a dump carries in nlmsgerr.error.
ErrorCodes == {-EINVAL, -ENOMEM}
EndFrames ==
    [type : {"NLMSG_DONE"}, index : {0}, name_len : {0}, label_len : {0},
     target_netnsid : {FALSE}, error : {0}]
    \cup [type : {"NLMSG_ERROR"}, index : {0}, name_len : {0},
          label_len : {0}, target_netnsid : {FALSE}, error : ErrorCodes]

\* ------------------------------------------------- copy_addr, gen_netmask
\* union sockany after calloc.
ZeroSa == [family |-> "AF_UNSPEC", data |-> <<>>, scope_id |-> 0]

\* __IN6_IS_ADDR_LINKLOCAL(a) || __IN6_IS_ADDR_MC_LINKLOCAL(a)
In6LinkLocal(a) ==
    \/ a[1] = 254 /\ a[2] \div 64 = 2
    \/ a[1] = 255 /\ a[2] % 16 = 2

\* Bytes copy_addr takes for family af; 0: the default: branch.
AddrLen(af) == IF af = "AF_INET" THEN 4 ELSE IF af = "AF_INET6" THEN 16 ELSE 0

\* copy_addr(r, af, sa, addr, addrlen, ifindex) with addrlen = Len(addr):
\* [set, sa], set: *r = &sa->sa was stored.
copy_addr(af, sa, addr, ifindex) ==
    LET len == AddrLen(af)
        sa1 == IF af = "AF_INET6" /\ In6LinkLocal(addr)
               THEN [sa EXCEPT !.scope_id = ifindex] ELSE sa
    IN  IF len = 0 THEN [set |-> FALSE, sa |-> sa]
        ELSE IF Len(addr) < len THEN [set |-> FALSE, sa |-> sa1]
        ELSE [set |-> TRUE,
              sa |-> [sa1 EXCEPT !.family = af, !.data = SubSeq(addr, 1, len)]]

\* The low bits of the byte set instead of the high ones.
PartialByteLow(prefixlen) == (2 ^ (prefixlen % 8)) - 1

\* (uint8_t)(0xff << (8 - (prefixlen % 8)))
PartialByte(prefixlen) == (255 * 2 ^ (8 - (prefixlen % 8))) % 256

\* gen_netmask(r, af, sa, prefixlen): [set, sa].
gen_netmask(af, sa, prefixlen) ==
    LET p == IF prefixlen > 8 * SizeofIn6Addr THEN 8 * SizeofIn6Addr
             ELSE prefixlen
        i == p \div 8
        addr == [k \in 1 .. SizeofIn6Addr |->
                    IF k <= i THEN 255
                    ELSE IF k = i + 1 THEN PartialByte(p)
                    ELSE 0]
    IN  copy_addr(af, sa, addr, 0)

\* ------------------------------------- nl_msg_to_ifaddr: address attributes
\* The address fields of a record after calloc: the pointers ifa_addr,
\* ifa_ifu (__ifa_dstaddr and __ifa_broadaddr are one union member) and
\* ifa_netmask as booleans, and the storage they point to.
NoAddrs ==
    [ifa_addr |-> FALSE, addr |-> ZeroSa, ifa_ifu |-> FALSE, ifu |-> ZeroSa,
     ifa_netmask |-> FALSE, netmask |-> ZeroSa, ifa_prefixlen |-> 0]

\* case IFA_LOCAL without the move of the address stored before.
LocalKeepsPrimary(rec) == rec

\* if (ifs->ifa.ifa_addr) { ifs->ifu = ifs->addr;
\*     ifs->ifa.__ifa_dstaddr = &ifs->ifu.sa; memset(&ifs->addr, 0, ...); }
LocalMovesPrimary(rec) ==
    IF rec.ifa_addr
    THEN [rec EXCEPT !.ifu = rec.addr, !.ifa_ifu = TRUE, !.addr = ZeroSa]
    ELSE rec

\* IFA_ADDRESS always stored as the primary address.
AddressAlwaysPrimary(rec) == FALSE

\* case IFA_ADDRESS: if (ifs->ifa.ifa_addr): an IFA_LOCAL came before, the
\* address is the destination address.
AddressIsDestination(rec) == rec.ifa_addr

\* One turn of the attribute loop of an address frame of family af.
address_attr(rec, af, rta, ifindex) ==
    LET into_addr(r) == LET c == copy_addr(af, r.addr, rta.data, ifindex)
                        IN  [r EXCEPT !.addr = c.sa, !.ifa_addr = @ \/ c.set]
        into_ifu(r) == LET c == copy_addr(af, r.ifu, rta.data, ifindex)
                       IN  [r EXCEPT !.ifu = c.sa, !.ifa_ifu = @ \/ c.set]
    IN  IF rta.type = "IFA_ADDRESS"
        THEN IF AddressIsDestination(rec) THEN into_ifu(rec)
             ELSE into_addr(rec)
        ELSE IF rta.type = "IFA_BROADCAST" THEN into_ifu(rec)
        ELSE IF rta.type = "IFA_LOCAL" THEN into_addr(LocalMovesPrimary(rec))
        ELSE rec

\* The attribute loop: the record after each attribute of rtas, in order.
RECURSIVE address_attrs(_, _, _, _)
address_attrs(rec, af, rtas, ifindex) ==
    IF rtas = <<>> THEN <<>>
    ELSE LET r1 == address_attr(rec, af, rtas[1], ifindex)
         IN  <<r1>> \o address_attrs(r1, af, Tail(rtas), ifindex)

\* if (ifs->ifa.ifa_addr) { gen_netmask(&ifs->ifa.ifa_netmask, ...);
\*     ifs->ifa.ifa_prefixlen = ifa->ifa_prefixlen; }
address_netmask(rec, af, prefixlen) ==
    IF rec.ifa_addr
    THEN LET c == gen_netmask(af, rec.netmask, prefixlen)
         IN  [rec EXCEPT !.netmask = c.sa, !.ifa_netmask = @ \/ c.set,
                         !.ifa_prefixlen = prefixlen]
    ELSE rec

\* ------------------------------------------------------- nl_msg_to_ifaddr
\* The head of the bucket, whatever its index.
LookupBucketHead(cx, hp, index) ==
    LET chain == IF (index % IFADDRS_HASH_SIZE) \in DOMAIN cx.hash
                 THEN cx.hash[index % IFADDRS_HASH_SIZE] ELSE <<>>
    IN  IF chain = <<>> THEN 0 ELSE chain[1]

\* for (ifs0 = ctx->hash[index % IFADDRS_HASH_SIZE]; ifs0; ifs0 = ifs0->hash_next)
\* if (ifs0->index == index) break;      0 when no record matches
LookupIndex(cx, hp, index) ==
    LET chain == IF (index % IFADDRS_HASH_SIZE) \in DOMAIN cx.hash
                 THEN cx.hash[index % IFADDRS_HASH_SIZE] ELSE <<>>
        hits == {j \in 1 .. Len(chain) : hp[chain[j]].index = index}
    IN  IF hits = {} THEN 0
        ELSE chain[CHOOSE j \in hits : \A j2 \in hits : j <= j2]

\* case IFLA_IFNAME: if (__NETLINK_DATALEN(rta) < sizeof(ifs->name));
\* len 0: the frame has no such attribute.
NameCopied(len) == len > 0 /\ len < SizeofName

\* The record is put on the list whether it has a name or not.
CommitsUnnamed(named) == TRUE

\* if (ifs->ifa.ifa_name) { ... ctx->last = ifs; } else { free(ifs); }
Commits(named) == named

\* The record put at the head of its bucket twice.
HashInsertTwice(chain, ifs) == <<ifs, ifs>> \o chain

\* ifs->hash_next = ctx->hash[bucket]; ctx->hash[bucket] = ifs;
HashInsert(chain, ifs) == <<ifs>> \o chain

\* The record becomes the first of the list.
ListPrepend(list, ifs) == <<ifs>> \o list

\* if (!ctx->first) ctx->first = ifs;
\* if (ctx->last) ctx->last->ifa.ifa_next = &ifs->ifa;  ctx->last = ifs;
ListAppend(list, ifs) == Append(list, ifs)

\* The label copied whatever its length.
LabelCopiedAnyLength(len) == len > 0

\* case IFA_LABEL: if (__RTA_DATALEN(rta) < sizeof(ifs->name))
LabelCopied(len) == len > 0 /\ len < SizeofName

\* ifa_name == NULL.
NoName == [from |-> "none", of |-> 0]

\* A link record put into the index whether it has a name or not.
HashInsertsUnnamed(named) == TRUE

\* if (ifs->ifa.ifa_name) { ... ctx->hash[bucket] = ifs; }
HashInserts(named) == named

\* The callback on one frame h over the dump state
\* st = [ctx, heap, nfree, aware]: [ret, st].
nl_msg_to_ifaddr(st, h, alloc_ok) ==
    LET link == h.type = "RTM_NEWLINK"
        ifs0 == IF link THEN 0 ELSE LookupIndex(st.ctx, st.heap, h.index)
    IN  IF ~link /\ ifs0 = 0 THEN [ret |-> 0, st |-> st]
        ELSE IF ~alloc_ok THEN [ret |-> -1, st |-> st]
        ELSE
          LET ifs == Len(st.heap) + 1
              ifa_name == IF link
                          THEN IF NameCopied(h.name_len)
                               THEN [from |-> "IFLA_IFNAME", of |-> ifs]
                               ELSE NoName
                          ELSE IF LabelCopied(h.label_len)
                               THEN [from |-> "IFA_LABEL", of |-> ifs]
                               ELSE st.heap[ifs0].ifa_name
              named == ifa_name # NoName
              rec == [type |-> h.type,
                      index |-> IF link THEN h.index ELSE 0,
                      ifa_ifindex |-> IF link THEN h.index
                                      ELSE st.heap[ifs0].ifa_ifindex,
                      ifa_flags |-> IF link THEN LinkFlags(h.index)
                                    ELSE st.heap[ifs0].ifa_flags,
                      ifa_mtu |-> IF link THEN LinkMtu(h.index)
                                  ELSE st.heap[ifs0].ifa_mtu,
                      ifa_name |-> ifa_name,
                      name |-> named]
              bucket == h.index % IFADDRS_HASH_SIZE
              hash1 == IF link /\ HashInserts(named)
                       THEN [st.ctx.hash EXCEPT ![bucket] = HashInsert(@, ifs)]
                       ELSE st.ctx.hash
              list1 == IF Commits(named) THEN ListAppend(st.ctx.list, ifs)
                       ELSE st.ctx.list
          IN  [ret |-> 0,
               st |-> [ctx |-> [list |-> list1, hash |-> hash1],
                       heap |-> Append(st.heap, rec),
                       nfree |-> Append(st.nfree,
                                        IF Commits(named) THEN 0 ELSE 1),
                       aware |-> st.aware \/ h.target_netnsid]]

\* netns_freeifaddrs freeing the head of the list only.
netns_freeifaddrs_head(nf, list) ==
    [k \in DOMAIN nf |-> nf[k] + (IF list # <<>> /\ list[1] = k THEN 1 ELSE 0)]

\* netns_freeifaddrs: one free() for every record on the list.
netns_freeifaddrs(nf, list) ==
    [k \in DOMAIN nf |->
        nf[k] + Cardinality({j \in DOMAIN list : list[j] = k})]

\* ------------------------------------------------------- __rtnl_enumerate
\* if (r < 0 && netns_id >= 0) with the namespace test dropped.
StrictFatalAnyNamespace(r, id) == r < 0

\* if (r < 0 && netns_id >= 0): the rejected option ends the call.
StrictFatal(r, id) == r < 0 /\ id >= 0

\* The address dump entered whatever the link dump returned.
RunsAddrDumpAlways(r) == TRUE

\* if (!r) r = __netlink_recv(fd, 2, RTM_GETADDR, ...)
RunsAddrDump(r) == r = 0

\* if (getaddr_netnsid_aware && getlink_netnsid_aware) *netnsid_aware = true;
\* else *netnsid_aware = false;
AwareResult(getaddr, getlink) == getaddr /\ getlink

\* errno = EINVAL; return -1;  on an NLMSG_ERROR frame
ErrorFrameErrno(h) == EINVAL

\* The request __netlink_recv builds for one dump.
DumpRequest(seq, type, id, k) ==
    [seq |-> seq, type |-> type, flags |-> {"NLM_F_DUMP", "NLM_F_REQUEST"},
     target_netnsid |-> id >= 0, sock |-> k]

\* netns_getifaddrs after __rtnl_enumerate returned r with the socket log ss,
\* the caller's bool aw (wr: stored by this call) and the records hp, nf, cx.
Returns(r, ss, aw, wr, hp, nf, cx) ==
    /\ npc' = "returned"
    /\ enum_ret' = r
    /\ socks' = ss
    /\ nl_fd' = 0
    /\ netnsid_aware' = aw
    /\ aware_written' = wr
    /\ heap' = hp
    /\ ctx' = cx
    /\ IF r < 0
       THEN /\ nfree' = netns_freeifaddrs(nf, cx.list)
            /\ ifap' = ifap
       ELSE /\ nfree' = nf
            /\ ifap' = [written |-> TRUE, list |-> cx.list]

\* The end of __rtnl_enumerate after the dumps: close(fd), the result bool.
EnumerateEnds(r, getlink, getaddr, hp, nf, cx) ==
    Returns(r, CloseSock(socks, nl_fd), AwareResult(getaddr, getlink), TRUE,
            hp, nf, cx)

InLinkDump == npc \in {"link_send", "link_recv"}

\* The dump at hand returned r to __rtnl_enumerate with the dump state st.
DumpReturns(r, st) ==
    LET getlink == IF InLinkDump THEN st.aware ELSE getlink_netnsid_aware
        getaddr == IF InLinkDump THEN getaddr_netnsid_aware ELSE st.aware
    IN  /\ getlink_netnsid_aware' = getlink
        /\ getaddr_netnsid_aware' = getaddr
        /\ IF InLinkDump
           THEN /\ link_end' = IF r = 0 THEN "done" ELSE "failed"
                /\ addr_end' = addr_end
           ELSE /\ link_end' = link_end
                /\ addr_end' = IF r = 0 THEN "done" ELSE "failed"
        /\ IF InLinkDump /\ RunsAddrDump(r)
           THEN /\ npc' = "addr_send"
                /\ heap' = st.heap /\ nfree' = st.nfree /\ ctx' = st.ctx
                /\ UNCHANGED <<enum_ret, socks, nl_fd, netnsid_aware,
                               aware_written, ifap>>
           ELSE EnumerateEnds(r, getlink, getaddr, st.heap, st.nfree, st.ctx)

\* The state of the dump at hand.
DumpState ==
    [ctx |-> ctx, heap |-> heap, nfree |-> nfree,
     aware |-> IF InLinkDump THEN getlink_netnsid_aware
               ELSE getaddr_netnsid_aware]

\* ---------------------------------------------------------------- actions
\* netns_get_nsid calls netlink_open.
NsidOpen ==
    /\ npc = "idle"
    /\ \E fail \in NetlinkOpenFails :
          LET o == netlink_open(socks, fail)
          IN  /\ socks' = o.socks
              /\ IF o.ret < 0
                 THEN /\ npc' = "nsid_done"
                      /\ nsid' = -1
                      /\ nl_fd' = 0
                 ELSE /\ npc' = "nsid_opened"
                      /\ nsid' = nsid
                      /\ nl_fd' = o.ret
              /\ \E e \in SysErrnos : errno' = netlink_open_errno(fail, e)
    /\ UNCHANGED <<netns_id, reqs, strict, getlink_netnsid_aware,
                   getaddr_netnsid_aware, netnsid_aware, aware_written, heap,
                   nfree, ctx, ifap, enum_ret, link_end, addr_end, seen_link,
                   seen_addr, nframes, last_cb, failure>>
    /\ UNCHANGED <<unixfd_vars, fn_vars, scm_vars>>

\* The rest of netns_get_nsid: the transaction, close, the NSID attribute.
NsidTransaction ==
    /\ npc = "nsid_opened"
    /\ \E souts \in Runs(SendmsgOutcomes(NsidRequestLen)),
          routs \in Runs(RecvmsgOutcomes(NsidRequestLen)),
          reply \in NsidAnswers :
          LET snd == __netlink_send(errno, souts)
              rcv == netlink_recv(snd.errno, routs)
              answer == IF snd.ret >= 0 /\ rcv.ret > 0 THEN reply
                        ELSE NsidRequest
              g == netns_get_nsid(socks, nl_fd, snd, rcv, answer)
          IN  /\ socks' = g.socks
              /\ nsid' = g.ret
              /\ errno' = g.errno
    /\ npc' = "nsid_done"
    /\ nl_fd' = 0
    /\ UNCHANGED <<netns_id, reqs, strict, getlink_netnsid_aware,
                   getaddr_netnsid_aware, netnsid_aware, aware_written, heap,
                   nfree, ctx, ifap, enum_ret, link_end, addr_end, seen_link,
                   seen_addr, nframes, last_cb, failure>>
    /\ UNCHANGED <<unixfd_vars, fn_vars, scm_vars>>

\* netns_getifaddrs up to socket() in __rtnl_enumerate.  The namespace id is
\* -1 (the caller's own namespace) or what netns_get_nsid returned.
EnumSocket ==
    /\ npc \in {"idle", "nsid_done"}
    /\ netns_id' = IF npc = "nsid_done" THEN nsid ELSE -1
    /\ \E ok \in BOOLEAN :
          IF ok
          THEN /\ socks' = OpenSock(socks, "__rtnl_enumerate")
               /\ nl_fd' = Len(socks) + 1
               /\ npc' = "strict"
               /\ ctx' = EmptyCtx
               /\ UNCHANGED <<netnsid_aware, aware_written, heap, nfree, ifap,
                              enum_ret, errno, failure>>
          ELSE /\ Returns(-1, socks, netnsid_aware, FALSE, heap, nfree,
                          EmptyCtx)
               /\ \E e \in SysErrnos :
                     /\ errno' = e
                     /\ failure' = [kind |-> "socket", code |-> e]
    /\ UNCHANGED <<nsid, reqs, strict, getlink_netnsid_aware,
                   getaddr_netnsid_aware, link_end, addr_end, seen_link,
                   seen_addr, nframes, last_cb>>
    /\ UNCHANGED <<unixfd_vars, fn_vars, scm_vars>>

\* setsockopt(NETLINK_GET_STRICT_CHK) and the test on its result.
EnumStrictChk ==
    /\ npc = "strict"
    /\ \E r \in {-1, 0}, e \in SysErrnos, c \in CloseErrnos :
          /\ strict' = IF r < 0 THEN "rejected" ELSE "ok"
          /\ IF StrictFatal(r, netns_id)
             THEN /\ Returns(-1, CloseSock(socks, nl_fd), FALSE, TRUE, heap,
                             nfree, ctx)
                  /\ errno' = IF c # 0 THEN c ELSE e
                  /\ failure' = [kind |-> "setsockopt", code |-> e]
             ELSE /\ npc' = "link_send"
                  /\ errno' = IF r < 0 THEN e ELSE errno
                  /\ UNCHANGED <<socks, nl_fd, netnsid_aware, aware_written,
                                 heap, nfree, ctx, ifap, enum_ret, failure>>
    /\ UNCHANGED <<netns_id, nsid, reqs, getlink_netnsid_aware,
                   getaddr_netnsid_aware, link_end, addr_end, seen_link,
                   seen_addr, nframes, last_cb>>
    /\ UNCHANGED <<unixfd_vars, fn_vars, scm_vars>>

\* __netlink_recv builds the request of the dump and sends it.
DumpSend ==
    /\ npc \in {"link_send", "addr_send"}
    /\ \E souts \in Runs(SendmsgOutcomes(SizeofNlmsghdr)) :
          IF __netlink_send(errno, souts).ret < 0
          THEN /\ reqs' = reqs
               /\ DumpReturns(-1, DumpState)
               /\ errno' = __netlink_send(errno, souts).errno
               /\ failure' = [kind |-> "send", code |-> souts[1].errno]
          ELSE /\ reqs' = Append(reqs,
                    IF InLinkDump
                    THEN DumpRequest(1, "RTM_GETLINK", netns_id, nl_fd)
                    ELSE DumpRequest(2, "RTM_GETADDR", netns_id, nl_fd))
               /\ npc' = IF InLinkDump THEN "link_recv" ELSE "addr_recv"
               /\ UNCHANGED <<socks, nl_fd, getlink_netnsid_aware,
                              getaddr_netnsid_aware, netnsid_aware,
                              aware_written, heap, nfree, ctx, ifap, enum_ret,
                              link_end, addr_end, errno, failure>>
    /\ UNCHANGED <<netns_id, nsid, strict, seen_link, seen_addr, nframes,
                   last_cb>>
    /\ UNCHANGED <<unixfd_vars, fn_vars, scm_vars>>

\* recv(fd, buf, sizeof(buf), MSG_DONTWAIT) returns r <= 0.
DumpRecvFail ==
    /\ npc \in {"link_recv", "addr_recv"}
    /\ DumpReturns(-1, DumpState)
    /\ \E r \in {-1, 0}, e \in SysErrnos \cup {EINTR} :
          /\ errno' = IF r < 0 THEN e ELSE errno
          /\ failure' = IF r < 0 THEN [kind |-> "recv", code |-> e]
                     ELSE [kind |-> "recv_nothing", code |-> 0]
    /\ UNCHANGED <<netns_id, nsid, reqs, strict, seen_link, seen_addr, nframes,
                   last_cb>>
    /\ UNCHANGED <<unixfd_vars, fn_vars, scm_vars>>

\* One turn of the frame loop of __netlink_recv on the next frame received.
DumpFrame ==
    /\ npc \in {"link_recv", "addr_recv"}
    /\ \E h \in (IF nframes < MaxFrames
                 THEN (IF npc = "link_recv" THEN LinkFrames ELSE AddrFrames)
                 ELSE {}) \cup EndFrames,
          alloc_ok \in BOOLEAN :
          IF h.type = "NLMSG_DONE"
          THEN /\ DumpReturns(0, DumpState)
               /\ UNCHANGED <<seen_link, seen_addr, nframes, last_cb, errno,
                              failure>>
          ELSE IF h.type = "NLMSG_ERROR"
          THEN /\ DumpReturns(-1, DumpState)
               /\ errno' = ErrorFrameErrno(h)
               /\ failure' = [kind |-> "error_frame", code |-> -h.error]
               /\ UNCHANGED <<seen_link, seen_addr, nframes, last_cb>>
          ELSE
            LET c == nl_msg_to_ifaddr(DumpState, h, alloc_ok)
                parsed == Len(c.st.heap) > Len(heap)
            IN  /\ nframes' = nframes + 1
                /\ seen_link' = (seen_link \/
                      (npc = "link_recv" /\ parsed /\ h.target_netnsid))
                /\ seen_addr' = (seen_addr \/
                      (npc = "addr_recv" /\ parsed /\ h.target_netnsid))
                /\ last_cb' = [h |-> h, ret |-> c.ret, ctx |-> ctx,
                                heap |-> heap, nfree |-> nfree,
                                nheap |-> Len(heap)]
                /\ errno' = IF c.ret # 0 THEN ENOMEM ELSE errno
                /\ failure' = IF c.ret # 0
                           THEN [kind |-> "calloc", code |-> ENOMEM]
                           ELSE failure
                /\ IF c.ret # 0
                   THEN DumpReturns(c.ret, c.st)
                   ELSE /\ heap' = c.st.heap
                        /\ nfree' = c.st.nfree
                        /\ ctx' = c.st.ctx
                        /\ getlink_netnsid_aware' =
                              IF InLinkDump THEN c.st.aware
                              ELSE getlink_netnsid_aware
                        /\ getaddr_netnsid_aware' =
                              IF InLinkDump THEN getaddr_netnsid_aware
                              ELSE c.st.aware
                        /\ UNCHANGED <<npc, socks, nl_fd, netnsid_aware,
                                       aware_written, ifap, enum_ret,
                                       link_end, addr_end>>
    /\ UNCHANGED <<netns_id, nsid, reqs, strict>>
    /\ UNCHANGED <<unixfd_vars, fn_vars, scm_vars>>

\* The socket pair of the descriptor-passing model is left alone.
NlInit ==
    /\ stype = "stream"
    /\ passcred = FALSE
    /\ peer = "open"
    /\ chan = <<>>
    /\ sent = 0
    /\ pc = "idle"
    /\ arg = FreshBatch
    /\ ret_fds = FreshBatch
    /\ retval = 0
    /\ rmsg = NoRecvmsg
    /\ nfds_msg = 0
    /\ data_msg = <<>>
    /\ rbuf = <<>>
    /\ nsyscall = 0
    /\ open = {}
    /\ nclose = NoClose
    /\ \E aware0 \in BOOLEAN : NlStart(aware0)
    /\ FnIdle
    /\ ScmIdle

NlNext ==
    \/ NsidOpen \/ NsidTransaction \/ EnumSocket \/ EnumStrictChk
    \/ DumpSend \/ DumpRecvFail \/ DumpFrame

NlSpec == NlInit /\ [][NlNext]_vars

\* ------------------------------------------------- claims on the enumeration
EnumReturned == npc = "returned"
EnumFailed == EnumReturned /\ enum_ret < 0

\* Records calloc returned that free() has not been called on.
LiveRecords == {k \in DOMAIN heap : nfree[k] = 0}

\* C16: when netns_getifaddrs fails, every record allocated so far has been
\* freed (once) and *ifap has not been written; a list is handed to the
\* caller only when both dumps were completed, and it is the list built.
C16_FailureReleasesAll ==
    /\ \A k \in DOMAIN heap : nfree[k] <= 1
    /\ EnumFailed => (LiveRecords = {} /\ ~ifap.written)
    /\ ifap.written =>
          /\ EnumReturned /\ enum_ret = 0
          /\ link_end = "done" /\ addr_end = "done"
          /\ ifap.list = ctx.list
          /\ \A j \in DOMAIN ifap.list : ifap.list[j] \in LiveRecords

\* A call that failed in the address dump after it had built a list of a
\* link record and an address record.
C16_Witness ==
    /\ EnumFailed
    /\ link_end = "done" /\ addr_end = "failed"
    /\ Len(ctx.list) >= 2
    /\ \E k \in DOMAIN heap : heap[k].type = "RTM_NEWADDR"

\* No function is running that holds a socket.
NoSocketHeld == npc \in {"idle", "nsid_done", "returned"}

\* C17: every socket opened by netlink_open, __rtnl_enumerate or
\* netns_get_nsid is closed exactly once by the time the opening function
\* has returned, unless netlink_open returned it to its caller, who then
\* closes it once; no socket is closed twice or left open.
C17_SocketsClosedOnce ==
    /\ \A k \in DOMAIN socks :
          /\ socks[k].nclose <= 1
          /\ socks[k].nclose = 0 => (k = nl_fd /\ ~NoSocketHeld)
    /\ NoSocketHeld => nl_fd = 0
    /\ npc = "nsid_opened" => socks[nl_fd].by = "netlink_open"
    /\ npc \in {"strict", "link_send", "link_recv", "addr_send", "addr_recv"}
          => (nl_fd \in DOMAIN socks /\ socks[nl_fd].by = "__rtnl_enumerate"
              /\ socks[nl_fd].nclose = 0)

\* A lookup and a failed enumeration, each of which opened a socket.
C17_Witness ==
    /\ EnumFailed
    /\ Len(socks) = 2
    /\ socks[1].by = "netlink_open" /\ socks[1].nclose = 1
    /\ socks[2].by = "__rtnl_enumerate" /\ socks[2].nclose = 1
    /\ link_end = "failed"

\* C18: the link request (sequence 1, DUMP|REQUEST) is sent first; the
\* address request (sequence 2) is sent on the same socket and only after
\* the link dump ended with DONE; once the link dump has failed no address
\* request is sent; success is returned only after the address dump ended
\* with DONE.
C18_DumpOrder ==
    /\ Len(reqs) <= 2
    /\ \A i \in DOMAIN reqs :
          /\ reqs[i].seq = i
          /\ reqs[i].type = (IF i = 1 THEN "RTM_GETLINK" ELSE "RTM_GETADDR")
          /\ reqs[i].flags = {"NLM_F_DUMP", "NLM_F_REQUEST"}
          /\ reqs[i].sock = reqs[1].sock
    /\ npc \in {"idle", "nsid_opened", "nsid_done", "strict", "link_send"}
          => reqs = <<>>
    /\ npc = "link_recv" => (Len(reqs) = 1 /\ link_end = "none")
    /\ npc = "addr_send" => (Len(reqs) = 1 /\ link_end = "done")
    /\ npc = "addr_recv" => (Len(reqs) = 2 /\ addr_end = "none")
    /\ Len(reqs) = 2 => link_end = "done"
    /\ link_end = "failed" =>
          (EnumFailed /\ Len(reqs) <= 1 /\ addr_end = "none")
    /\ (EnumReturned /\ enum_ret = 0) =>
          (link_end = "done" /\ addr_end = "done" /\ Len(reqs) = 2)

\* A call that went through both dumps and returned a list.
C18_Witness ==
    /\ EnumReturned /\ enum_ret = 0
    /\ Len(reqs) = 2
    /\ Len(ifap.list) >= 2

\* C19: the strict-validation option is requested before any request is
\* sent.  Rejected with netns_id >= 0: the call fails without sending a
\* request, closes the socket and stores false in *netnsid_aware.  Rejected
\* with netns_id < 0: the call goes on to the link dump, and to the address
\* dump when the link dump completes.
C19_StrictRejected ==
    /\ npc = "strict" => (strict = "unset" /\ reqs = <<>>)
    /\ reqs # <<>> => strict # "unset"
    /\ (strict = "rejected" /\ netns_id >= 0) =>
          /\ EnumFailed
          /\ reqs = <<>> /\ link_end = "none" /\ addr_end = "none"
          /\ socks[Len(socks)].by = "__rtnl_enumerate"
          /\ socks[Len(socks)].nclose = 1
          /\ aware_written /\ ~netnsid_aware
    /\ (strict = "rejected" /\ netns_id < 0) =>
          /\ npc \in {"link_send", "link_recv", "addr_send", "addr_recv",
                      "returned"}
          /\ EnumReturned => link_end # "none"
          /\ (EnumReturned /\ link_end = "done") => addr_end # "none"
          /\ \A i \in DOMAIN reqs : ~reqs[i].target_netnsid

\* The option was rejected while a namespace id was given.
C19_Witness ==
    /\ strict = "rejected" /\ netns_id >= 0
    /\ EnumFailed
    /\ Len(socks) = 2

\* The option was rejected without a namespace id and both dumps ran.
C19_WitnessIgnored ==
    /\ strict = "rejected" /\ netns_id < 0
    /\ EnumReturned /\ enum_ret = 0
    /\ Len(reqs) = 2

\* C20: when the call has returned, the caller's netnsid_aware is true if
\* and only if a frame of the link dump and a frame of the address dump
\* carried the target-namespace attribute; in particular it is false after
\* every failure before the address dump.
C20_AwareIffBothDumps ==
    EnumReturned =>
        /\ netnsid_aware <=> (seen_link /\ seen_addr)
        /\ addr_end = "none" => ~netnsid_aware

\* C20 restricted to the calls that got a socket.
C20_AwareWhenSocketOpened ==
    (EnumReturned /\ aware_written) =>
        /\ netnsid_aware <=> (seen_link /\ seen_addr)
        /\ addr_end = "none" => ~netnsid_aware

\* --------------------------------------- the functions applied on their own
Families == {"AF_INET", "AF_INET6", "AF_PACKET"}
PrefixLens == 0 .. MaxPrefixLen

\* The data of the n-th address attribute of a frame: 4 bytes, 16 bytes, or
\* a 16-byte link-local address.
AttrData(n) ==
    {[k \in 1 .. 4 |-> n], [k \in 1 .. SizeofIn6Addr |-> n],
     [k \in 1 .. SizeofIn6Addr |-> IF k = 1 THEN 254 ELSE IF k = 2 THEN 128
                                   ELSE n]}
AttrTypes == {"IFA_ADDRESS", "IFA_LOCAL", "IFA_BROADCAST"}

\* The address attributes of one frame, up to MaxAttrs of them.
RECURSIVE AttrSeqs(_)
AttrSeqs(n) ==
    IF n = 0 THEN {<<>>}
    ELSE LET shorter == AttrSeqs(n - 1)
         IN  shorter \cup
             {Append(q, [type |-> t, data |-> d]) :
                 q \in {x \in shorter : Len(x) = n - 1},
                 t \in AttrTypes, d \in AttrData(n)}

\* errno before a call.
EntryErrnos == {0, EAGAIN}

\* What netlink_transaction may read as the reply.
Replies ==
    [type : {"NLMSG_ERROR"}, error : ErrorCodes \cup {0}]
    \cup [type : {"RTM_NEWNSID"}, error : {0}]

\* gen_netmask on a zeroed sockany.
ApplyGenNetmask ==
    /\ fn = "none"
    /\ \E af \in Families, prefixlen \in PrefixLens :
          /\ fn_in' = [af |-> af, prefixlen |-> prefixlen]
          /\ fn_out' = gen_netmask(af, ZeroSa, prefixlen)
    /\ fn' = "gen_netmask"
    /\ UNCHANGED <<unixfd_vars, nl_vars, scm_vars>>

\* The address branch of nl_msg_to_ifaddr on the attributes of one frame.
ApplyAddressAttrs ==
    /\ fn = "none"
    /\ \E af \in Families, rtas \in AttrSeqs(MaxAttrs) \ {<<>>},
          prefixlen \in {0, 20, 8 * 4, MaxPrefixLen} :
          LET steps == <<NoAddrs>> \o address_attrs(NoAddrs, af, rtas, 1)
          IN  /\ fn_in' = [af |-> af, rtas |-> rtas, prefixlen |-> prefixlen]
              /\ fn_out' = [steps |-> steps,
                            rec |-> address_netmask(steps[Len(steps)], af,
                                                    prefixlen)]
    /\ fn' = "address_attrs"
    /\ UNCHANGED <<unixfd_vars, nl_vars, scm_vars>>

\* __netlink_send of a frame of len bytes.
ApplyNetlinkSend ==
    /\ fn = "none"
    /\ \E e0 \in EntryErrnos, len \in NlLens :
          \E outs \in Runs(SendmsgOutcomes(len)) :
             /\ fn_in' = [e0 |-> e0, len |-> len, outs |-> outs]
             /\ fn_out' = __netlink_send(e0, outs)
    /\ fn' = "__netlink_send"
    /\ UNCHANGED <<unixfd_vars, nl_vars, scm_vars>>

\* netlink_recv into a buffer whose header says len bytes.
ApplyNetlinkRecv ==
    /\ fn = "none"
    /\ \E e0 \in EntryErrnos, len \in NlLens :
          \E outs \in Runs(RecvmsgOutcomes(len)) :
             /\ fn_in' = [e0 |-> e0, len |-> len, outs |-> outs]
             /\ fn_out' = netlink_recv(e0, outs)
    /\ fn' = "netlink_recv"
    /\ UNCHANGED <<unixfd_vars, nl_vars, scm_vars>>

\* netlink_transaction with the request of netns_get_nsid, which is also
\* the answer buffer.
ApplyNetlinkTransaction ==
    /\ fn = "none"
    /\ \E e0 \in EntryErrnos, reply \in Replies,
          souts \in Runs(SendmsgOutcomes(NsidRequestLen)),
          routs \in Runs(RecvmsgOutcomes(NsidRequestLen)) :
          LET snd == __netlink_send(e0, souts)
              rcv == netlink_recv(snd.errno, routs)
              answer == IF snd.ret >= 0 /\ rcv.ret > 0 THEN reply
                        ELSE NsidRequest
              t == netlink_transaction(snd, rcv, answer)
          IN  /\ fn_in' = [e0 |-> e0, souts |-> souts, routs |-> routs,
                           reply |-> reply]
              /\ fn_out' = [snd |-> snd, rcv |-> rcv, answer |-> answer,
                            ret |-> t.ret, errno |-> t.errno]
    /\ fn' = "netlink_transaction"
    /\ UNCHANGED <<unixfd_vars, nl_vars, scm_vars>>

SizeofSllAddr == 24
SizeofStats64 == 192

\* Link attributes and address attributes whose data the callback copies.
CopiedAttrs ==
    {"IFLA_IFNAME", "IFLA_ADDRESS", "IFLA_BROADCAST", "IFLA_STATS64",
     "IFLA_MTU", "IFLA_LINK", "IFA_ADDRESS", "IFA_LOCAL", "IFA_BROADCAST",
     "IFA_LABEL"}

\* __RTA_DATALEN(rta) of the attributes drawn.
DataLens == {0, 1, 2, SizeofInt, 8, SizeofIn6Addr, SizeofName, SizeofSllAddr,
             25, SizeofStats64, 200}

\* A copy of n bytes of attribute data into a destination of size bytes.
Memcpy(n, size) == [read |-> n, written |-> n, size |-> size]

\* The bytes the callback reads from the data of one attribute and writes
\* into the record's field for it, with the size of that field.
attr_copy(type, af, datalen) ==
    IF type \in {"IFLA_IFNAME", "IFA_LABEL"}
    THEN IF datalen < SizeofName THEN Memcpy(datalen, SizeofName)
         ELSE Memcpy(0, SizeofName)
    ELSE IF type \in {"IFLA_ADDRESS", "IFLA_BROADCAST"}
    THEN IF datalen > SizeofSllAddr THEN Memcpy(0, SizeofSllAddr)
         ELSE Memcpy(datalen, SizeofSllAddr)
    ELSE IF type = "IFLA_STATS64" THEN Memcpy(datalen, SizeofStats64)
    ELSE IF type = "IFLA_MTU" THEN Memcpy(SizeofInt, SizeofInt)
    ELSE IF type = "IFLA_LINK"
    THEN IF datalen # 0 THEN Memcpy(datalen, SizeofInt)
         ELSE Memcpy(0, SizeofInt)
    ELSE LET len == AddrLen(af)
             \* the link-local test looks at the first byte of the data
             peeked == IF af = "AF_INET6" THEN 1 ELSE 0
         IN  IF len = 0 THEN Memcpy(0, 0)
             ELSE IF datalen < len
             THEN [read |-> peeked, written |-> 0, size |-> len]
             ELSE Memcpy(len, len)

\* The callback copies the data of one attribute.
ApplyAttrCopy ==
    /\ fn = "none"
    /\ \E type \in CopiedAttrs, af \in Families, datalen \in DataLens :
          /\ fn_in' = [type |-> type, af |-> af, datalen |-> datalen]
          /\ fn_out' = attr_copy(type, af, datalen)
    /\ fn' = "attr_copy"
    /\ UNCHANGED <<unixfd_vars, nl_vars, scm_vars>>

\* The socket pair and the netlink caller are left alone.
FnInit ==
    /\ stype = "stream"
    /\ passcred = FALSE
    /\ peer = "open"
    /\ chan = <<>>
    /\ sent = 0
    /\ pc = "idle"
    /\ arg = FreshBatch
    /\ ret_fds = FreshBatch
    /\ retval = 0
    /\ rmsg = NoRecvmsg
    /\ nfds_msg = 0
    /\ data_msg = <<>>
    /\ rbuf = <<>>
    /\ nsyscall = 0
    /\ open = {}
    /\ nclose = NoClose
    /\ NlStart(FALSE)
    /\ FnIdle
    /\ ScmIdle

FnNext ==
    \/ ApplyGenNetmask \/ ApplyAddressAttrs \/ ApplyNetlinkSend
    \/ ApplyNetlinkRecv \/ ApplyNetlinkTransaction \/ ApplyAttrCopy

FnSpec == FnInit /\ [][FnNext]_vars

\* ------------------------------------- walking one received buffer
\* The bytes of the receive buffer that the model follows the cursors over.
MaxBuf == 48

SizeofRtattr == 4
SizeofIfinfomsg == 16
SizeofIfaddrmsg == 8

\* (((len) + 3) & ~3)
__NETLINK_ALIGN(len) == ((len + 3) \div 4) * 4

\* A pointer difference compared with a sizeof: the difference is converted
\* to size_t, so a negative one compares as a huge value.
SizeTAtLeast(d, n) == d < 0 \/ d >= n

\* ((char *)(end) - (char *)(nlh) >= sizeof(struct nlmsghdr))
__NLMSG_OK(nlh, end) == SizeTAtLeast(end - nlh, SizeofNlmsghdr)

\* (char *)(nlh) + __NETLINK_ALIGN((nlh)->nlmsg_len)
__NLMSG_NEXT(nlh, nlmsg_len) == nlh + __NETLINK_ALIGN(nlmsg_len)

\* (char *)(nlh) + (nlh)->nlmsg_len
__NLMSG_DATAEND(nlh, nlmsg_len) == nlh + nlmsg_len

\* (char *)(nlh) + sizeof(struct nlmsghdr) + __NETLINK_ALIGN(len)
__NLMSG_RTA(nlh, len) == nlh + SizeofNlmsghdr + __NETLINK_ALIGN(len)

\* (char *)(rta) + __NETLINK_ALIGN((rta)->rta_len)
__RTA_NEXT(rta, rta_len) == rta + __NETLINK_ALIGN(rta_len)

\* ((char *)(end) - (char *)(rta) >= sizeof(struct rtattr))
__RTA_OK(rta, end) == SizeTAtLeast(end - rta, SizeofRtattr)

\* Values of the length fields the kernel side puts into the buffer, zero
\* and values below the header size among them.
NlmsgLens == {0, 4, SizeofNlmsghdr, 24, 32, 36}
RtaLens == {0, 2, SizeofRtattr, 8}
WalkTypes == {"RTM_NEWLINK", "RTM_NEWADDR", "NLMSG_DONE", "NLMSG_ERROR"}
RecvLens == {r \in 1 .. MaxBuf : r % 8 = 0}

\* The header the frame cursor points at, and the attribute header the
\* attribute cursor points at.
WalkAt(phase, hdr, h, rta, rta_len, again) ==
    [phase |-> phase, hdr |-> hdr, h |-> h, rta |-> rta, rta_len |-> rta_len,
     again |-> again]

\* A turn of a loop that left its cursor where it was: again counts these
\* turns, even ones as 2 and odd ones as 1; 0 while there was none.
Again(w) == IF w.again = 1 THEN 2 ELSE 1

\* hdr = __NLMSG_NEXT(hdr): the states of the walk after the frame cursor
\* moved by the length field of the frame it was at.
WalkNextFrame(w) ==
    LET nxt == __NLMSG_NEXT(w.hdr, w.h.nlmsg_len)
    IN  IF nxt = w.hdr
        THEN {[w EXCEPT !.phase = "frame", !.again = Again(w)]}
        ELSE IF nxt > MaxBuf
        THEN {[w EXCEPT !.phase = "outside"]}
        ELSE {WalkAt("frame", nxt, [type |-> t, nlmsg_len |-> l], 0, 0,
                     w.again) : t \in WalkTypes, l \in NlmsgLens}

\* One test of the frame loop of __netlink_recv and, for a link frame or an
\* address frame of a known interface, the entry into the attribute loop of
\* the callback; the callback returns 0 at once for an unknown interface.
WalkFrame ==
    /\ fn = "walk"
    /\ fn_out.phase = "frame"
    /\ LET w == fn_out
       IN  IF ~__NLMSG_OK(w.hdr, fn_in.r)
           THEN fn_out' = [w EXCEPT !.phase = "next_recv"]
           ELSE IF w.h.type = "NLMSG_DONE"
           THEN fn_out' = [w EXCEPT !.phase = "returned"]
           ELSE IF w.h.type = "NLMSG_ERROR"
           THEN fn_out' = [w EXCEPT !.phase = "returned"]
           ELSE LET first == __NLMSG_RTA(w.hdr,
                                 IF w.h.type = "RTM_NEWLINK"
                                 THEN SizeofIfinfomsg ELSE SizeofIfaddrmsg)
                IN  IF first > MaxBuf
                    THEN fn_out' = [w EXCEPT !.phase = "outside"]
                    ELSE \/ \E l \in RtaLens :
                               fn_out' = WalkAt("attrs", w.hdr, w.h, first, l,
                                                w.again)
                         \/ /\ w.h.type = "RTM_NEWADDR"
                            /\ fn_out' \in WalkNextFrame(w)
    /\ UNCHANGED <<fn, fn_in, unixfd_vars, nl_vars, scm_vars>>

\* One test of the attribute loop; when it ends, the callback returns 0 and
\* the frame loop moves its cursor by the frame's length field.
WalkAttr ==
    /\ fn = "walk"
    /\ fn_out.phase = "attrs"
    /\ LET w == fn_out
       IN  IF __RTA_OK(w.rta, __NLMSG_DATAEND(w.hdr, w.h.nlmsg_len))
           THEN LET nxt == __RTA_NEXT(w.rta, w.rta_len)
                IN  IF nxt = w.rta
                    THEN fn_out' = [w EXCEPT !.again = Again(w)]
                    ELSE IF nxt > MaxBuf
                    THEN fn_out' = [w EXCEPT !.phase = "outside"]
                    ELSE \E l \in RtaLens :
                            fn_out' = [w EXCEPT !.rta = nxt, !.rta_len = l]
           ELSE fn_out' \in WalkNextFrame(w)
    /\ UNCHANGED <<fn, fn_in, unixfd_vars, nl_vars, scm_vars>>

\* recv has put r bytes into the buffer; the frame cursor is at its start.
WalkInit ==
    /\ stype = "stream"
    /\ passcred = FALSE
    /\ peer = "open"
    /\ chan = <<>>
    /\ sent = 0
    /\ pc = "idle"
    /\ arg = FreshBatch
    /\ ret_fds = FreshBatch
    /\ retval = 0
    /\ rmsg = NoRecvmsg
    /\ nfds_msg = 0
    /\ data_msg = <<>>
    /\ rbuf = <<>>
    /\ nsyscall = 0
    /\ open = {}
    /\ nclose = NoClose
    /\ NlStart(FALSE)
    /\ ScmIdle
    /\ fn = "walk"
    /\ \E r \in RecvLens, t \in WalkTypes, l \in NlmsgLens :
          /\ fn_in = [r |-> r]
          /\ fn_out = WalkAt("frame", 0, [type |-> t, nlmsg_len |-> l],
                             0, 0, 0)

WalkNext == WalkFrame \/ WalkAttr

WalkSpec == WalkInit /\ [][WalkNext]_vars

\* The process is scheduled: a loop that can move on does.
WalkLiveSpec == WalkSpec /\ WF_vars(WalkNext)

\* ------------------------------------------------------ test/scmtest.c
\* for (i = 0; i < 2; i++)
Rounds == 2

\* The identities the parent process may have.
Idents == [pid : {1, 2}, uid : {0, 1}, gid : {0, 1}]

\* The one-byte datagram of kick_fd_client and of get_scm_creds_sync.
KickByte == [data |-> "1", cred |-> NoCred]

\* The kernel lets a process pass SCM_CREDENTIALS that are its own, and a
\* process of uid 0 any.
KernelAccepts(claimed, real) == claimed = real \/ real.uid = 0

\* The datagram of send_creds without a credentials block.
CredsMessageBare(claimed) == [data |-> "p", cred |-> NoCred]

\* The datagram of send_creds with the credentials the kernel delivers.
CredsMessage(claimed) == [data |-> "p", cred |-> claimed]

\* get_scm_creds_sync leaving the caller's struct as it finds it.
InitCredKeep(cred) == cred

\* cred->pid = -1; cred->uid = -1; cred->gid = -1;
InitCred(cred) == NoCred

\* The test on the first control message: a credentials block is there.
CredBlock(m) == m.cred # NoCred

\* The two tests of the receiver after get_scm_creds_sync: "no_cred",
\* "corrupted" or "ok".
ReceiverCheck(rc, mc) ==
    IF rc.pid = -1 THEN "no_cred"
    ELSE IF rc.uid # mc.uid \/ rc.pid # mc.pid \/ rc.gid # mc.gid
    THEN "corrupted"
    ELSE "ok"

\* get_scm_creds_sync returned with cred in rcred; block: it copied a
\* credentials block.  The receiver tests rcred and goes on or exits.
RoundEnds(cred, block) ==
    /\ rcred' = cred
    /\ rounds' = Append(rounds, [block |-> block, cred |-> cred])
    /\ IF ReceiverCheck(cred, mcred) = "ok"
       THEN /\ loop_i' = loop_i + 1
            /\ rpc' = IF loop_i + 1 < Rounds THEN "kick" ELSE "exit0"
       ELSE /\ loop_i' = loop_i
            /\ rpc' = "exit1"

\* main up to fork: socketpair, SO_PASSCRED on both ends, mcred, fork.
ScmSetup ==
    /\ spc = "start"
    /\ \E ok \in BOOLEAN :
          IF ok
          THEN /\ mcred' = ident
               /\ spc' = "wait1"
               /\ rpc' = "kick"
               /\ fault' = fault
          ELSE /\ spc' = "exit1"
               /\ fault' = TRUE
               /\ UNCHANGED <<mcred, rpc>>
    /\ UNCHANGED <<sv0, sv1, ident, rcred, loop_i, nread, sends, rounds>>
    /\ UNCHANGED <<unixfd_vars, nl_vars, fn_vars>>

\* kick_fd_client(sv[1])
RKick ==
    /\ rpc = "kick"
    /\ \E ok \in BOOLEAN :
          IF ok
          THEN /\ sv0' = Append(sv0, KickByte)
               /\ rpc' = "sync"
               /\ fault' = fault
          ELSE /\ rpc' = "exit1"
               /\ fault' = TRUE
               /\ sv0' = sv0
    /\ UNCHANGED <<spc, sv1, ident, mcred, rcred, loop_i, nread, sends, rounds>>
    /\ UNCHANGED <<unixfd_vars, nl_vars, fn_vars>>

\* get_scm_creds_sync up to recvmsg: the struct is reset, SO_PASSCRED is
\* set and a byte is written; the function returns if either call fails.
RSync ==
    /\ rpc = "sync"
    /\ \E ok \in BOOLEAN :
          IF ok
          THEN /\ sv0' = Append(sv0, KickByte)
               /\ rcred' = InitCred(rcred)
               /\ rpc' = "recvmsg"
               /\ UNCHANGED <<loop_i, rounds, fault>>
          ELSE /\ RoundEnds(InitCred(rcred), FALSE)
               /\ fault' = TRUE
               /\ sv0' = sv0
    /\ UNCHANGED <<spc, sv1, ident, mcred, nread, sends>>
    /\ UNCHANGED <<unixfd_vars, nl_vars, fn_vars>>

\* recvmsg(sock, &msg, 0) of get_scm_creds_sync and the rest of the round:
\* it blocks until a datagram is queued, or fails.
RRecvmsg ==
    /\ rpc = "recvmsg"
    /\ \/ /\ sv1 # <<>>
          /\ sv1' = Tail(sv1)
          /\ IF CredBlock(Head(sv1))
             THEN RoundEnds(Head(sv1).cred, TRUE)
             ELSE RoundEnds(rcred, FALSE)
          /\ fault' = fault
       \/ /\ sv1' = sv1
          /\ RoundEnds(rcred, FALSE)
          /\ fault' = TRUE
    /\ UNCHANGED <<spc, sv0, ident, mcred, nread, sends>>
    /\ UNCHANGED <<unixfd_vars, nl_vars, fn_vars>>

\* proxyrecv(sv[0], buf, 1): select waits up to 2 seconds for a datagram,
\* then recv(MSG_DONTWAIT); without a datagram the sender exits with 2.
SWait ==
    /\ spc \in {"wait1", "wait2"}
    /\ IF sv0 # <<>>
       THEN /\ sv0' = Tail(sv0)
            /\ nread' = nread + 1
            /\ spc' = IF spc = "wait1" THEN "send1" ELSE "send2"
            /\ fault' = fault
       ELSE /\ spc' = "exit2"
            /\ fault' = TRUE
            /\ UNCHANGED <<sv0, nread>>
    /\ UNCHANGED <<rpc, sv1, ident, mcred, rcred, loop_i, sends, rounds>>
    /\ UNCHANGED <<unixfd_vars, nl_vars, fn_vars>>

\* send_creds(sv[0], &rcred) and send_creds(sv[0], &vcred): both structs
\* hold getpid(), geteuid(), getegid() of the parent.
SSend ==
    /\ spc \in {"send1", "send2"}
    /\ \E ok \in BOOLEAN :
          IF ok /\ KernelAccepts(ident, ident)
          THEN /\ sv1' = Append(sv1, CredsMessage(ident))
               /\ sends' = Append(sends, [cred |-> ident, nread |-> nread])
               /\ spc' = IF spc = "send1" THEN "wait2" ELSE "waitpid"
               /\ fault' = fault
          ELSE /\ spc' = "exit2"
               /\ fault' = TRUE
               /\ UNCHANGED <<sv1, sends>>
    /\ UNCHANGED <<rpc, sv0, ident, mcred, rcred, loop_i, nread, rounds>>
    /\ UNCHANGED <<unixfd_vars, nl_vars, fn_vars>>

\* wait_for_pid(pid): PASS if the receiver exited with 0.
SWaitPid ==
    /\ spc = "waitpid"
    /\ rpc \in {"exit0", "exit1"}
    /\ spc' = IF rpc = "exit0" THEN "pass" ELSE "exit3"
    /\ UNCHANGED <<rpc, sv0, sv1, ident, mcred, rcred, loop_i, nread, sends,
                   rounds, fault>>
    /\ UNCHANGED <<unixfd_vars, nl_vars, fn_vars>>

\* The socket pair of the descriptor-passing model, the netlink caller and
\* the library functions are left alone.
ScmInit ==
    /\ stype = "stream"
    /\ passcred = FALSE
    /\ peer = "open"
    /\ chan = <<>>
    /\ sent = 0
    /\ pc = "idle"
    /\ arg = FreshBatch
    /\ ret_fds = FreshBatch
    /\ retval = 0
    /\ rmsg = NoRecvmsg
    /\ nfds_msg = 0
    /\ data_msg = <<>>
    /\ rbuf = <<>>
    /\ nsyscall = 0
    /\ open = {}
    /\ nclose = NoClose
    /\ NlStart(FALSE)
    /\ FnIdle
    /\ \E id \in Idents : ScmStart(id)

SenderStep == ScmSetup \/ SWait \/ SSend \/ SWaitPid
ReceiverStep == RKick \/ RSync \/ RRecvmsg

ScmNext == SenderStep \/ ReceiverStep

ScmSpec == ScmInit /\ [][ScmNext]_vars

\* Both processes are scheduled: a process that can take a step in which
\* no system call fails and no wait times out eventually takes one.
ScmLiveSpec ==
    /\ ScmSpec
    /\ WF_vars(SenderStep /\ fault' = fault)
    /\ WF_vars(ReceiverStep /\ fault' = fault)

\* ------------------------------------------- claims on the records (C21-C24)
\* Records on the output list and records in the ifindex index.
Listed == {ctx.list[j] : j \in DOMAIN ctx.list}
Indexed == UNION {{ctx.hash[b][j] : j \in DOMAIN ctx.hash[b]} : b \in Buckets}

\* The last frame handed to the callback, and the record it allocated.
LastFrame == last_cb.h
LastAllocated == Len(heap) = last_cb.nheap + 1

\* C21: every record on the output list and in the ifindex index has a
\* name; a link frame whose name attribute is absent or 17 bytes or longer
\* has its record freed, and the record enters neither the list nor the index.
C21_RecordsNamed ==
    /\ \A k \in Listed \cup Indexed : heap[k].name
    /\ (/\ LastFrame.type = "RTM_NEWLINK"
        /\ LastFrame.name_len \notin 1 .. (SizeofName - 1)
        /\ last_cb.ret = 0)
          => /\ LastAllocated
             /\ nfree[Len(heap)] = 1
             /\ Len(heap) \notin Listed \cup Indexed
             /\ ctx = last_cb.ctx

\* A link frame with a 17-byte name arrived after a named link frame had
\* been recorded.
C21_Witness ==
    /\ LastFrame.type = "RTM_NEWLINK"
    /\ LastFrame.name_len = SizeofName
    /\ last_cb.ret = 0
    /\ Listed # {}

\* Records of context cx whose interface index is `index`.
IndexedAs(cx, index) ==
    {k \in UNION {{cx.hash[b][j] : j \in DOMAIN cx.hash[b]} : b \in Buckets} :
        heap[k].index = index}

\* C22: an address frame whose interface index is not in the index changes
\* nothing: no record is allocated, the list and the index are as before,
\* and the callback returns 0, so that processing continues without error.
C22_UnknownIndexIgnored ==
    (/\ LastFrame.type = "RTM_NEWADDR"
     /\ IndexedAs(last_cb.ctx, LastFrame.index) = {})
       => /\ last_cb.ret = 0
          /\ Len(heap) = last_cb.nheap
          /\ ctx = last_cb.ctx
          /\ failure.kind # "calloc"

\* An address frame for index 65 arrived when only index 1, which shares
\* its bucket, was in the index.
C22_Witness ==
    /\ LastFrame.type = "RTM_NEWADDR"
    /\ LastFrame.index = IFADDRS_HASH_SIZE + 1
    /\ IndexedAs(last_cb.ctx, 1) # {}
    /\ IndexedAs(last_cb.ctx, LastFrame.index) = {}
    /\ npc = "addr_recv"

\* No element occurs twice in sequence q.
NoRepeat(q) == \A i, j \in DOMAIN q : q[i] = q[j] => i = j

\* The chains of the index, one after the other.
RECURSIVE ChainsFrom(_)
ChainsFrom(bs) ==
    IF bs = {} THEN <<>>
    ELSE LET b == CHOOSE x \in bs : TRUE
         IN  ctx.hash[b] \o ChainsFrom(bs \ {b})
Chains == ChainsFrom(Buckets)

\* No interface was announced by two link frames.
LinksDistinct ==
    \A k1, k2 \in DOMAIN heap :
       (/\ heap[k1].type = "RTM_NEWLINK" /\ heap[k2].type = "RTM_NEWLINK"
        /\ heap[k1].index = heap[k2].index) => k1 = k2

\* C23 as stated, for dumps that announce every interface once: the index
\* and the output list each hold at most one record per interface index,
\* and no record occurs twice.
C23_OnePerIfindex ==
    LinksDistinct =>
       /\ NoRepeat(ctx.list) /\ NoRepeat(Chains)
       /\ \A k1, k2 \in Indexed : heap[k1].index = heap[k2].index => k1 = k2
       /\ \A k1, k2 \in Listed :
             heap[k1].ifa_ifindex = heap[k2].ifa_ifindex => k1 = k2

\* C23: a record is inserted at most once into the index, in the bucket of
\* its interface index, and at most once into the output list, so every
\* returned record appears exactly once; the index holds link records only
\* and each of them is on the list; the list holds a record for every named
\* link frame and for every address frame of an indexed interface, so
\* several records of the list, and of the index, may share an interface
\* index.
C23_InsertedOnce ==
    /\ NoRepeat(ctx.list) /\ NoRepeat(Chains)
    /\ ifap.written => NoRepeat(ifap.list)
    /\ \A b \in Buckets : \A j \in DOMAIN ctx.hash[b] :
          /\ heap[ctx.hash[b][j]].type = "RTM_NEWLINK"
          /\ heap[ctx.hash[b][j]].index % IFADDRS_HASH_SIZE = b
    /\ Indexed \subseteq Listed
    /\ Listed = {k \in DOMAIN heap : heap[k].name}
    /\ \A k \in Listed :
          heap[k].type = "RTM_NEWADDR" =>
             \E k0 \in Indexed : /\ k0 < k
                                 /\ heap[k0].index = heap[k].ifa_ifindex

\* A returned list with a link record and an address record of the same
\* interface.
C23_Witness ==
    /\ ifap.written
    /\ \E k1, k2 \in Listed :
          /\ heap[k1].type = "RTM_NEWLINK" /\ heap[k2].type = "RTM_NEWADDR"
          /\ heap[k1].ifa_ifindex = heap[k2].ifa_ifindex

\* C24: the output list keeps the order in which the frames of the dumps
\* arrived, all link records come before the address records, and a
\* callback leaves the list as it was or with its one new record at the
\* end: appending never reorders or removes a record.
C24_ListKeepsDumpOrder ==
    /\ \A i, j \in DOMAIN ctx.list :
          i < j =>
             /\ ctx.list[i] < ctx.list[j]
             /\ ~(/\ heap[ctx.list[i]].type = "RTM_NEWADDR"
                  /\ heap[ctx.list[j]].type = "RTM_NEWLINK")
    /\ \/ ctx.list = last_cb.ctx.list
       \/ ctx.list = Append(last_cb.ctx.list, Len(heap))
    /\ ifap.written => ifap.list = ctx.list

\* A returned list that starts with a link record and ends with an address
\* record.
C24_Witness ==
    /\ ifap.written
    /\ Len(ifap.list) >= 2
    /\ heap[ifap.list[1]].type = "RTM_NEWLINK"
    /\ heap[ifap.list[Len(ifap.list)]].type = "RTM_NEWADDR"

\* ------------------------------------------------------ claims on errno
\* C27: when the enumeration fails on an error frame, errno is the code the
\* frame carries, unchanged.
C27_FrameCodeSurfaces ==
    (EnumFailed /\ failure.kind = "error_frame") => errno = failure.code

\* A failed send or receive of a dump surfaces with its own errno, which
\* close() and the release of the list do not overwrite.
C27_SendRecvErrnoKept ==
    (EnumFailed /\ failure.kind \in {"send", "recv"}) => errno = failure.code

\* --------------------------------------------- claims on the address fields
\* Bit j of a byte sequence, bit 0 the most significant bit of the first byte.
BitOf(data, j) == (data[(j \div 8) + 1] \div (2 ^ (7 - (j % 8)))) % 2

\* C25: for a prefix length p the mask derived for an IPv4 address is 4
\* bytes with exactly p leading one-bits and zeros elsewhere when p is in
\* 0..32, for an IPv6 address 16 bytes likewise when p is in 0..128, and
\* all ones when p is greater than the width of the address, up to 255.
C25_Netmask ==
    (fn = "gen_netmask" /\ fn_in.af \in {"AF_INET", "AF_INET6"}) =>
       LET width == IF fn_in.af = "AF_INET" THEN 32 ELSE 128
           ones == IF fn_in.prefixlen > width THEN width ELSE fn_in.prefixlen
       IN  /\ fn_out.set
           /\ fn_out.sa.family = fn_in.af
           /\ 8 * Len(fn_out.sa.data) = width
           /\ \A j \in 0 .. (width - 1) :
                 BitOf(fn_out.sa.data, j) = IF j < ones THEN 1 ELSE 0

\* The mask of an IPv4 /20: the prefix ends inside a byte.
C25_Witness ==
    /\ fn = "gen_netmask"
    /\ fn_in = [af |-> "AF_INET", prefixlen |-> 20]
    /\ fn_out.sa.data = <<255, 255, 240, 0>>

\* The n-th attribute of the frame, the record before it and after it.
AttrAt(n) == fn_in.rtas[n]
Before(n) == fn_out.steps[n]
After(n) == fn_out.steps[n + 1]

\* copy_addr accepts the data of the n-th attribute for the family of the
\* frame, and stores its leading bytes.
Copied(n) ==
    /\ fn_in.af \in {"AF_INET", "AF_INET6"}
    /\ Len(AttrAt(n).data) >= (IF fn_in.af = "AF_INET" THEN 4 ELSE 16)
Stored(n) ==
    SubSeq(AttrAt(n).data, 1, IF fn_in.af = "AF_INET" THEN 4 ELSE 16)

\* The n-th attribute made the address stored before it the destination
\* address and its own address the primary one.
Reclassified(n) ==
    /\ After(n).ifa_ifu /\ After(n).ifu = Before(n).addr
    /\ After(n).ifa_addr /\ After(n).addr.data = Stored(n)

\* C26 as stated: once a primary address is set, a following IFA_ADDRESS
\* or IFA_LOCAL attribute makes the address stored before the destination
\* address and the new one the primary address.
C26_AnyFollowingReclassifies ==
    fn = "address_attrs" =>
       \A n \in DOMAIN fn_in.rtas :
          (/\ AttrAt(n).type \in {"IFA_ADDRESS", "IFA_LOCAL"}
           /\ Before(n).ifa_addr
           /\ Copied(n)) => Reclassified(n)

\* C26: within one address frame, once a primary address is set, a
\* following IFA_LOCAL attribute whose data copy_addr accepts makes the
\* address stored before the destination address and the new one the
\* primary address; a following IFA_ADDRESS attribute is stored as the
\* destination address and leaves the primary address as it was.
C26_LocalReclassifies ==
    fn = "address_attrs" =>
       \A n \in DOMAIN fn_in.rtas :
          (Before(n).ifa_addr /\ Copied(n)) =>
             /\ AttrAt(n).type = "IFA_LOCAL" => Reclassified(n)
             /\ AttrAt(n).type = "IFA_ADDRESS" =>
                   /\ After(n).ifa_addr /\ After(n).addr = Before(n).addr
                   /\ After(n).ifa_ifu /\ After(n).ifu.data = Stored(n)

\* IFA_ADDRESS then IFA_LOCAL on an IPv4 frame: the first address is the
\* destination, the second the primary address.
C26_Witness ==
    /\ fn = "address_attrs"
    /\ fn_in.af = "AF_INET"
    /\ Len(fn_in.rtas) = 2
    /\ AttrAt(1).type = "IFA_ADDRESS" /\ AttrAt(2).type = "IFA_LOCAL"
    /\ fn_out.rec.ifa_addr /\ fn_out.rec.addr.data = <<2, 2, 2, 2>>
    /\ fn_out.rec.ifa_ifu /\ fn_out.rec.ifu.data = <<1, 1, 1, 1>>

\* ------------------------------------- claims on the functions of network.c
\* C28: netlink_transaction fails if the send or the receive fails; if the
\* reply is an error frame with a negative code e it fails with errno = -e;
\* if the reply is an error frame with code 0 or any other frame it
\* succeeds.
C28_Transaction ==
    fn = "netlink_transaction" =>
       LET o == fn_out
       IN  /\ o.ret \in {-1, 0}
           /\ (o.snd.ret < 0 \/ o.rcv.ret < 0) => o.ret = -1
           /\ (o.snd.ret >= 0 /\ o.rcv.ret >= 0) =>
                 IF o.answer.type = "NLMSG_ERROR" /\ o.answer.error < 0
                 THEN o.ret = -1 /\ o.errno = -o.answer.error
                 ELSE o.ret = 0

\* A reply that is an error frame with code -ENOMEM, and one with code 0.
C28_Witness ==
    /\ fn = "netlink_transaction"
    /\ fn_out.rcv.ret > 0
    /\ fn_out.answer = [type |-> "NLMSG_ERROR", error |-> -ENOMEM]
    /\ fn_out.ret = -1 /\ fn_out.errno = ENOMEM

C28_WitnessAck ==
    /\ fn = "netlink_transaction"
    /\ fn_out.rcv.ret > 0
    /\ fn_out.answer = [type |-> "NLMSG_ERROR", error |-> 0]
    /\ fn_out.ret = 0

\* The kernel's answer to the last call of a retry loop that goes on while
\* the call is interrupted.
LastOutcome == fn_in.outs[Len(fn_in.outs)]

\* C29: the netlink send retries while sendmsg is interrupted (EINTR) and
\* returns what the first call that is not interrupted gives.
C29_SendRetriesEintr ==
    fn = "__netlink_send" =>
       /\ fn_out.calls = Len(fn_in.outs)
       /\ IF LastOutcome.ret < 0
          THEN fn_out.ret = -1 /\ fn_out.errno = LastOutcome.errno
          ELSE fn_out.ret = LastOutcome.ret

\* An error of sendmsg other than EINTR is returned after one attempt.
C29_OtherErrorsOnce ==
    (/\ fn = "__netlink_send"
     /\ fn_in.outs[1].ret < 0 /\ fn_in.outs[1].errno # EINTR)
       => /\ fn_out.calls = 1
          /\ fn_out.ret = -1 /\ fn_out.errno = fn_in.outs[1].errno

\* C30: netlink_recv fails with EMSGSIZE exactly when the truncation flag
\* is set and the bytes delivered equal the length of the buffer, and
\* returns the byte count of every other read that delivered bytes.
C30_TruncationReported ==
    (fn = "netlink_recv" /\ LastOutcome.ret > 0) =>
       IF LastOutcome.trunc /\ LastOutcome.ret = fn_in.len
       THEN fn_out.ret = -1 /\ fn_out.errno = EMSGSIZE
       ELSE fn_out.ret = LastOutcome.ret

\* netlink_recv calls recvmsg again only after EINTR, returns 0 when
\* nothing was delivered, -1 with the errno of recvmsg when it failed, and
\* the byte count when bytes were delivered without the truncation flag.
C30_RetriesAndCounts ==
    fn = "netlink_recv" =>
       /\ fn_out.calls = Len(fn_in.outs)
       /\ LastOutcome.ret = 0 => fn_out.ret = 0
       /\ LastOutcome.ret < 0 =>
             fn_out.ret = -1 /\ fn_out.errno = LastOutcome.errno
       /\ (LastOutcome.ret > 0 /\ ~LastOutcome.trunc) =>
             fn_out.ret = LastOutcome.ret

\* ------------------------------------------------- claims on the handshake
\* Round k gave the receiver a credentials block with the sender's identity.
RoundGood(k) == rounds[k].block /\ rounds[k].cred = ident

\* C31: in each round the pid, uid and gid the receiver obtains from the
\* credentials block are those of the sending process; the receiver exits
\* with failure when a round yields no credentials block or a field
\* differs, and goes on, and at last exits with 0, only after rounds that
\* yielded the sender's identity.
C31_CredsMatchSender ==
    /\ \A k \in DOMAIN rounds :
          /\ rounds[k].block => rounds[k].cred = ident
          /\ ~RoundGood(k) => (k = Len(rounds) /\ rpc = "exit1")
    /\ loop_i = Cardinality({k \in DOMAIN rounds : RoundGood(k)})
    /\ rpc = "exit0" => (loop_i = Rounds /\ Len(rounds) = Rounds)

\* The receiver accepted both rounds; and a receiver whose second round
\* yielded no credentials block.
C31_Witness ==
    /\ rpc = "exit0"
    /\ Len(rounds) = Rounds
    /\ \A k \in DOMAIN rounds : RoundGood(k)

C31_WitnessNoBlock ==
    /\ rpc = "exit1"
    /\ Len(rounds) = Rounds
    /\ RoundGood(1) /\ ~rounds[2].block

\* The sender sends a credentials message only after it has read a byte
\* for it, and two at most; when it reports PASS it has sent two, and the
\* receiver has received both and exited with 0.
HandshakeInOrder ==
    /\ Len(sends) <= Rounds
    /\ \A k \in DOMAIN sends : sends[k].nread = k
    /\ spc = "pass" =>
          /\ Len(sends) = Rounds /\ sv1 = <<>>
          /\ rpc = "exit0" /\ Len(rounds) = Rounds
          /\ \A k \in DOMAIN rounds : RoundGood(k)

WalkOver == fn_out.phase \in {"next_recv", "returned", "outside"}

\* C33: the iteration over the frames of a received buffer and over the
\* attributes of a frame terminates for every value of the length fields,
\* zero and values below the header size included.
C33_IterationTerminates == <>WalkOver

\* ------------------------------------ claims on the dump phase (C32)
\* C32: the dump phase waits for the kernel's frames: a dump never fails
\* because no data was ready at the moment of a read.
C32_DumpWaitsForData ==
    EnumFailed => failure # [kind |-> "recv", code |-> EAGAIN]

\* ------------------------------- claims on the attribute copies (C34)
\* C34: every copy from an attribute into a record reads no more bytes
\* than the attribute's data holds and writes no more than the destination
\* field holds.
C34_CopiesBounded ==
    fn = "attr_copy" =>
        /\ fn_out.read <= fn_in.datalen
        /\ fn_out.written <= fn_out.size

\* ------------------------- claims on the address record (C36, C37)
\* The number of one-bits in the address bytes of a socket address.
OneBits(sa) ==
    Cardinality({j \in 0 .. (8 * Len(sa.data) - 1) : BitOf(sa.data, j) = 1})

\* C36: in every address record whose primary address is set, the stored
\* prefix length is the number of one-bits of the stored netmask, and the
\* netmask and the primary address carry the family of the frame.
C36_PrefixLenIsNetmaskBits ==
    (fn = "address_attrs" /\ fn_out.rec.ifa_addr) =>
        /\ fn_out.rec.ifa_netmask
        /\ fn_out.rec.ifa_prefixlen = OneBits(fn_out.rec.netmask)
        /\ fn_out.rec.netmask.family = fn_in.af
        /\ fn_out.rec.addr.family = fn_in.af

\* The positions of the attributes of type t in the frame.
Positions(t) == {n \in DOMAIN fn_in.rtas : AttrAt(n).type = t}

\* The frame carries exactly one IFA_ADDRESS and one IFA_LOCAL attribute,
\* both of the length of the frame's family.
OneAddressOneLocal ==
    /\ fn = "address_attrs"
    /\ Cardinality(Positions("IFA_ADDRESS")) = 1
    /\ Cardinality(Positions("IFA_LOCAL")) = 1
    /\ \A n \in Positions("IFA_ADDRESS") \cup Positions("IFA_LOCAL") :
          Copied(n)

\* The record of the frame with its attributes at positions a and l
\* exchanged.
SwappedRecord(a, l) ==
    LET rtas == [n \in DOMAIN fn_in.rtas |->
                    IF n = a THEN AttrAt(l) ELSE IF n = l THEN AttrAt(a)
                    ELSE AttrAt(n)]
        steps == address_attrs(NoAddrs, fn_in.af, rtas, 1)
    IN  address_netmask(steps[Len(steps)], fn_in.af, fn_in.prefixlen)

\* The record is the same with the two attributes exchanged, its primary
\* address is the IFA_LOCAL value and its destination address the
\* IFA_ADDRESS value.
SameEitherOrder(a, l) ==
    /\ fn_out.rec = SwappedRecord(a, l)
    /\ fn_out.rec.ifa_addr /\ fn_out.rec.addr.data = Stored(l)
    /\ fn_out.rec.addr.family = fn_in.af
    /\ fn_out.rec.ifa_ifu /\ fn_out.rec.ifu.data = Stored(a)
    /\ fn_out.rec.ifu.family = fn_in.af

\* C37 as stated: for an address frame with exactly one valid IFA_ADDRESS
\* and one valid IFA_LOCAL attribute the record is the same whichever of
\* the two comes first: the primary address is the IFA_LOCAL value and the
\* destination address the IFA_ADDRESS value.
C37_OrderIndependentAsStated ==
    OneAddressOneLocal =>
       \A a \in Positions("IFA_ADDRESS"), l \in Positions("IFA_LOCAL") :
          SameEitherOrder(a, l)

\* C37: for an address frame with exactly one valid IFA_ADDRESS and one
\* valid IFA_LOCAL attribute and no IFA_BROADCAST attribute the record is
\* the same whichever of the two comes first: the primary address is the
\* IFA_LOCAL value and the destination address the IFA_ADDRESS value.
C37_OrderIndependent ==
    (OneAddressOneLocal /\ Positions("IFA_BROADCAST") = {}) =>
       \A a \in Positions("IFA_ADDRESS"), l \in Positions("IFA_LOCAL") :
          SameEitherOrder(a, l)

\* IFA_LOCAL first, IFA_ADDRESS second on an IPv6 frame.
C37_Witness ==
    /\ OneAddressOneLocal
    /\ fn_in.af = "AF_INET6"
    /\ Len(fn_in.rtas) = 2
    /\ AttrAt(1).type = "IFA_LOCAL" /\ AttrAt(2).type = "IFA_ADDRESS"
    /\ fn_out.rec.addr.data = AttrAt(1).data
    /\ fn_out.rec.ifu.data = AttrAt(2).data
    /\ AttrAt(1).data # AttrAt(2).data

\* --------------------------------- claims on record accounting (C38)
\* How many times record k is linked into the output list.
TimesListed(k) == Cardinality({j \in DOMAIN ctx.list : ctx.list[j] = k})

\* C38: while an enumeration runs and after it succeeded, every record
\* allocated so far is either linked exactly once into the output list or
\* already freed, every record in the index is in the list and not freed,
\* and releasing the list frees every live record exactly once; after a
\* failed enumeration every record has been freed exactly once.
C38_RecordsAccounted ==
    /\ \A k \in DOMAIN heap :
          IF EnumFailed THEN nfree[k] = 1
          ELSE /\ nfree[k] = 0 => TimesListed(k) = 1
               /\ nfree[k] # 0 => (nfree[k] = 1 /\ TimesListed(k) = 0)
               /\ netns_freeifaddrs(nfree, ctx.list)[k] = 1
    /\ ~EnumFailed =>
          /\ Indexed \subseteq Listed
          /\ \A k \in Indexed : nfree[k] = 0

\* The address dump has processed an address frame of a link in the index.
C38_Witness ==
    /\ ~EnumReturned
    /\ \E k \in Indexed : nfree[k] = 0
    /\ \E k \in Listed \ Indexed : heap[k].type = "RTM_NEWADDR"

\* A link frame without a name: its record is freed and in no list or index.
C38_WitnessFreed ==
    /\ ~EnumReturned
    /\ \E k \in DOMAIN heap : nfree[k] = 1 /\ k \notin Listed \cup Indexed

\* ------------------------------ claims on the address frames (C39)
\* The link record that owned the interface of the last frame when the
\* callback was called; 0 if there was none.
Owner == LookupIndex(last_cb.ctx, last_cb.heap, LastFrame.index)

\* The last frame the callback processed was an address frame of an
\* interface in the index.
AddrFrameOfKnown ==
    /\ LastFrame.type = "RTM_NEWADDR"
    /\ last_cb.ret = 0
    /\ Owner # 0

\* C39: an address frame whose interface is in the index appends one new
\* record of its own to the list and leaves the records before it, the
\* owning link record among them, and the index unchanged; the new record
\* has the ifindex, flags and MTU of the owning link record, and its name is
\* the label when the label fits the name buffer and the link record's name
\* otherwise.
C39_AddrFrameEffect ==
    AddrFrameOfKnown =>
        LET new == Len(heap)
            fits == LastFrame.label_len > 0 /\ LastFrame.label_len < SizeofName
        IN  /\ new = last_cb.nheap + 1
            /\ ctx.list = Append(last_cb.ctx.list, new)
            /\ ctx.hash = last_cb.ctx.hash
            /\ \A k \in 1 .. last_cb.nheap : heap[k] = last_cb.heap[k]
            /\ ~EnumFailed =>
                  /\ nfree[new] = 0
                  /\ \A k \in 1 .. last_cb.nheap : nfree[k] = last_cb.nfree[k]
            /\ heap[new].type = "RTM_NEWADDR"
            /\ heap[new].ifa_ifindex = heap[Owner].ifa_ifindex
            /\ heap[new].ifa_ifindex = LastFrame.index
            /\ heap[new].ifa_flags = heap[Owner].ifa_flags
            /\ heap[new].ifa_mtu = heap[Owner].ifa_mtu
            /\ heap[new].ifa_name =
                  IF fits THEN [from |-> "IFA_LABEL", of |-> new]
                  ELSE [from |-> "IFLA_IFNAME", of |-> Owner]

\* An address frame with a label that is too long took the name of its link.
C39_Witness ==
    /\ AddrFrameOfKnown
    /\ LastFrame.label_len = SizeofName
    /\ heap[Len(heap)].ifa_name = heap[Owner].ifa_name
    /\ heap[Len(heap)].ifa_mtu = LinkMtu(LastFrame.index)

\* An address frame with a fitting label has a name of its own.
C39_WitnessLabel ==
    /\ AddrFrameOfKnown
    /\ LastFrame.label_len = SizeofName - 1
    /\ heap[Len(heap)].ifa_name.from = "IFA_LABEL"

\* ---------------------------------- claims on the batch counts (C40)
\* The counts of the batch are in range, the call wrote no slot of the
\* descriptor array at or behind fd_count_max, and fd_count_ret is not 0
\* only when the call succeeded.
CountsBounded ==
    /\ ret_fds.fd_count_ret <= ret_fds.fd_count_max
    /\ ret_fds.fd_count_max <= KERNEL_SCM_MAX_FD - 1
    /\ DOMAIN ret_fds.fd.w \subseteq 0 .. (ret_fds.fd_count_max - 1)
    /\ Cardinality(DOMAIN ret_fds.fd.w) <= ret_fds.fd_count_max
    /\ ret_fds.fd_count_ret # 0 => retval > 0

\* C40 as stated: after any receive call fd_count_ret <= fd_count_max <= 252
\* holds, the call has written at most fd_count_max entries of the
\* descriptor array, and fd_count_ret is non-zero only on a successful
\* return.
C40_CountsBoundedAfterAnyCall == Returned => CountsBounded

\* C40: after any receive call entered with fd_count_max <= 252 and
\* fd_count_ret = 0, fd_count_ret <= fd_count_max <= 252 holds, the call has
\* written at most fd_count_max entries of the descriptor array, and
\* fd_count_ret is non-zero only on a successful return.
C40_CountsBounded ==
    (/\ Returned
     /\ arg.fd_count_max < KERNEL_SCM_MAX_FD
     /\ arg.fd_count_ret = 0) => CountsBounded

\* More descriptors came than were asked for and the surplus was accepted:
\* fd_count_ret is capped at fd_count_max.
C40_Witness ==
    /\ MessageRead
    /\ arg.fd_count_max = 1
    /\ NumReceived = 2
    /\ retval > 0
    /\ ret_fds.fd_count_ret = 1
    /\ DOMAIN ret_fds.fd.w = {0}

\* Fewer descriptors came than the 252 asked for: the slots up to 251 are
\* padded.
C40_WitnessPadded ==
    /\ MessageRead
    /\ arg.fd_count_max = KERNEL_SCM_MAX_FD - 1
    /\ retval > 0
    /\ ret_fds.fd_count_ret = 1
    /\ DOMAIN ret_fds.fd.w = 0 .. (KERNEL_SCM_MAX_FD - 2)
====
